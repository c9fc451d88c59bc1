----------------------------- MODULE ChatProofs -----------------------------
(***************************************************************************)
(* Proofs about a chat request: Offers, for any number of overlapping sends*)
(* of an account, any caps and any texts; Gates, for any number of requests*)
(* in flight and any caps; Upstream, the judge's breaker for any number of *)
(* turns, threshold and cooldown, and the road of a model call for any number*)
(* of calls that share the adapter cache; Interview, for any agendas and any*)
(* number of things wrong with what the model replies.                     *)
(***************************************************************************)
EXTENDS Offers, Gates, Interview, Upstream, FiniteSetTheorems, WellFoundedInduction, TLAPS

-----------------------------------------------------------------------------
(* What a send remembers between two awaits                                  *)

SendOf(n) == [on : BOOLEAN, tap : BOOLEAN, echo : (1 .. n) \cup {Nil}, call_type : {"chat", "tr_interview_reference"}]

Locals ==
    [pc : {"idle", "search", "offer", "intent", "reply", "lane", "run"}, send : SendOf(MaxOffers) \cup {Nil},
     search : BOOLEAN, offer : OfferRecords \cup {Nil}, about : Asks \cup {Nil},
     photo : {"none", "ok", "big"}, armed : BOOLEAN, tmpl : Templates, contract : BOOLEAN,
     lane : {Nil, "none", "contract", "template", "sandbox"},
     why : {Nil, "dark", "lost", "tap", "reply", "asked"}, teaser : Ids \cup {Nil},
     version : BOOLEAN, declined : BOOLEAN, stripped : BOOLEAN]

(* A plan that could be two files has its version question in the offer.      *)
Asked(o) == o.ask.ambiguous => o.lane \in {"asked", "pending"}

(* Research wanted by the offer is on, or the gate stripped it.               *)
Researched(l, o) == o.research => l.search \/ l.stripped

(* What arms a build, and what it builds from.                                *)
Decided(l) ==
    \/ l.why = "dark"
    \/ /\ l.send.tap \/ l.offer # Nil \/ l.about.explicit \/ (l.about.words /\ search_enabled(l))
       /\ l.why \in {"asked", "tap", "reply"} =>
            /\ l.about.ambiguous => l.version
            /\ l.about.marker => l.photo # "none"

(* Where a send is says what it has decided; the offer it names is what it     *)
(* was, as far as research goes, or gone.                                     *)
Fits(l, store, n) ==
    /\ l.pc # "idle" => l.send \in SendOf(n) /\ l.about \in Asks
    /\ l.pc \notin {"lane", "run"} => ~l.armed /\ ~l.declined /\ l.teaser = Nil
    /\ l.pc \in {"idle", "search"} => ~l.search
    /\ l.pc \in {"idle", "search", "offer", "intent"} => l.offer = Nil
    /\ l.declined => ~l.armed /\ l.teaser = Nil
    /\ l.pc = "reply" => l.offer # Nil
    /\ l.pc = "run" /\ l.lane # "none" => l.armed
    /\ l.pc = "offer" /\ l.send.echo # Nil =>
          store[l.send.echo] = Nil \/ Researched(l, store[l.send.echo])
    /\ l.offer # Nil => Asked(l.offer) /\ Researched(l, l.offer)
    /\ l.armed => Decided(l)

(* The store: an id beyond the last one minted is free, an offer in it has     *)
(* not been taken, and none is taken twice.                                   *)
StoreInv ==
    /\ minted \in 0 .. MaxOffers /\ offers \in [Ids -> OfferRecords \cup {Nil}] /\ taken \in [Ids -> 0 .. 1]
    /\ \A i \in Ids : offers[i] # Nil => taken[i] = 0 /\ Asked(offers[i]) /\ i <= minted
    /\ \A i \in Ids : i > minted => taken[i] = 0

(* A build the gate has decided on, or still may, without asking again.        *)
Admitted(l) ==
    l.pc \in {"intent", "reply"} \/ (l.pc \in {"lane", "run"} /\ l.armed /\ l.why # "dark")

Searching == {r \in Requests : req[r].search}
Admits == {r \in Requests : Admitted(req[r])}

CountersInv ==
    /\ searches \in Nat /\ files \in Nat /\ dark \in Nat /\ referenced \in Nat
    /\ searches - referenced + MaxUses * Cardinality(Searching) <= SearchCap - 1 + Cardinality(Requests) * MaxUses
    /\ files - dark + Cardinality(Admits) <= GenCap - 1 + Cardinality(Requests)

OffersInv ==
    /\ req \in [Requests -> Locals] /\ paid \in BOOLEAN
    /\ \A r \in Requests : Fits(req[r], offers, minted)
    /\ StoreInv /\ CountersInv

LEMMA RequestsCounted ==
    ASSUME NEW S \in SUBSET Requests
    PROVE  /\ IsFiniteSet(S) /\ Cardinality(S) \in Nat /\ Cardinality(S) <= Cardinality(Requests)
           /\ Cardinality(Requests) \in Nat
  <1>1. IsFiniteSet(Requests) /\ Cardinality(Requests) \in Nat
    BY OffersAssumption, FS_CardinalityType
  <1>2. IsFiniteSet(S) /\ Cardinality(S) <= Cardinality(Requests)
    BY <1>1, FS_Subset
  <1> QED BY <1>1, <1>2, FS_CardinalityType

LEMMA MoreUses ==
    ASSUME NEW m \in Nat, NEW a \in Nat, NEW b \in Nat, a <= b
    PROVE  m * a <= m * b /\ m * a \in Nat /\ m * b \in Nat
  <1>1. PICK d \in Nat : b = a + d
    <2>1. b - a \in Nat /\ b = a + (b - a)
      OBVIOUS
    <2> QED BY <2>1
  <1>2. m * b = m * a + m * d /\ m * a \in Nat /\ m * d \in Nat /\ m * b \in Nat
    BY <1>1
  <1> QED BY <1>2

LEMMA IdleFits ==
    /\ Idle \in Locals /\ Idle.pc = "idle" /\ ~Idle.search /\ ~Idle.armed /\ ~Idle.declined
    /\ ~Idle.stripped /\ ~Idle.version /\ ~Idle.contract
    /\ Idle.teaser = Nil /\ Idle.offer = Nil /\ Idle.photo = "none" /\ Idle.why = Nil /\ Idle.lane = Nil
  <1>1. PICK no \in BOOLEAN : no = FALSE
    OBVIOUS
  <1>2. Idle = [pc |-> "idle", send |-> Nil, search |-> no, offer |-> Nil, about |-> Nil, photo |-> "none",
                armed |-> no, tmpl |-> Nil, contract |-> no, lane |-> Nil, why |-> Nil, teaser |-> Nil,
                version |-> no, declined |-> no, stripped |-> no]
    BY <1>1 DEF Idle
  <1>3. /\ Idle \in Locals /\ Idle.pc = "idle" /\ Idle.search = no /\ Idle.armed = no /\ Idle.declined = no
        /\ Idle.stripped = no /\ Idle.version = no /\ Idle.contract = no
        /\ Idle.teaser = Nil /\ Idle.offer = Nil /\ Idle.photo = "none" /\ Idle.why = Nil /\ Idle.lane = Nil
    BY <1>2 DEF Locals, Templates
  <1> QED BY <1>1, <1>3

LEMMA IdleAlwaysFits == ASSUME NEW store, NEW n PROVE Fits(Idle, store, n) /\ ~Admitted(Idle)
  BY IdleFits DEF Fits, Admitted

(* Every step but the answer leaves the counters alone: it lets in nobody,     *)
(* or only below the cap.                                                     *)
LEMMA CountersMove ==
    ASSUME CountersInv, UNCHANGED <<searches, files, referenced, dark>>,
           Searching' \subseteq Searching \/ searches < SearchCap,
           Admits' \subseteq Admits \/ files < GenCap
    PROVE  CountersInv'
  <1> DEFINE n == Cardinality(Requests)
             s == Cardinality(Searching)
             t == Cardinality(Searching')
             a == Cardinality(Admits)
             b == Cardinality(Admits')
  <1>1. Searching' \in SUBSET Requests /\ Admits' \in SUBSET Requests
        /\ Searching \in SUBSET Requests /\ Admits \in SUBSET Requests
    BY DEF Searching, Admits
  <1>2. n \in Nat /\ s \in Nat /\ a \in Nat /\ t \in Nat /\ b \in Nat /\ t <= n /\ b <= n
    BY <1>1, RequestsCounted
  <1>3. (Searching' \subseteq Searching => t <= s) /\ (Admits' \subseteq Admits => b <= a)
    BY <1>1, RequestsCounted, FS_Subset
  <1>4. /\ searches - referenced + MaxUses * s <= SearchCap - 1 + n * MaxUses
        /\ files - dark + a <= GenCap - 1 + n
        /\ searches \in Nat /\ files \in Nat /\ dark \in Nat /\ referenced \in Nat
    BY DEF CountersInv
  <1> HIDE DEF n, s, t, a, b
  <1>5. SearchCap \in Nat /\ GenCap \in Nat /\ MaxUses \in Nat
    BY OffersAssumption
  <1>6. /\ MaxUses * t <= MaxUses * n /\ MaxUses * n \in Nat /\ MaxUses * t \in Nat
        /\ MaxUses * s \in Nat /\ n * MaxUses = MaxUses * n
    BY <1>2, <1>5, MoreUses
  <1>7. t <= s => MaxUses * t <= MaxUses * s
    BY <1>2, <1>5, MoreUses
  <1>8. searches - referenced + MaxUses * t <= SearchCap - 1 + n * MaxUses
    <2> PICK x \in Nat, y \in Nat, z \in Nat : x = MaxUses * t /\ y = MaxUses * s /\ z = MaxUses * n
      BY <1>6
    <2>1. searches - referenced + y <= SearchCap - 1 + z /\ x <= z /\ (t <= s => x <= y) /\ n * MaxUses = z
      BY <1>4, <1>6, <1>7
    <2>2. t <= s \/ searches < SearchCap
      BY <1>3
    <2>3. searches - referenced + x <= SearchCap - 1 + z
      BY <2>1, <2>2, <1>4, <1>5
    <2> QED BY <2>1, <2>3
  <1>9. files - dark + b <= GenCap - 1 + n
    <2>1. b <= a \/ files < GenCap
      BY <1>3
    <2> QED BY <2>1, <1>2, <1>4, <1>5
  <1>10. n' = n /\ s' = t /\ a' = b
    BY DEF n, s, t, a, b
  <1> QED BY <1>4, <1>8, <1>9 DEF CountersInv, n, t, b

-----------------------------------------------------------------------------
(* The store                                                                 *)

(* What a step may do to the store: mint, forget, and add an answer.           *)
StoreGrows ==
    /\ minted' >= minted /\ minted' \in Nat
    /\ \A i \in Ids : i <= minted =>
          offers'[i] = Nil \/ (offers[i] # Nil /\ offers'[i].research = offers[i].research)

LEMMA StoreAlone == ASSUME StoreInv, UNCHANGED <<offers, minted, taken>> PROVE StoreInv' /\ StoreGrows
  BY DEF StoreInv, StoreGrows, Asked

LEMMA Minting ==
    ASSUME StoreInv, NEW o \in OfferRecords, Asked(o), create(o), UNCHANGED taken
    PROVE  StoreInv' /\ StoreGrows /\ minted' = minted + 1 /\ minted + 1 \in Ids
  <1>1. /\ minted \in Nat /\ minted < MaxOffers /\ minted' = minted + 1 /\ MaxOffers \in Nat
        /\ offers' = [offers EXCEPT ![minted + 1] = o] /\ taken' = taken
    BY OffersAssumption DEF create, StoreInv
  <1>2. minted + 1 \in Ids
    BY <1>1 DEF Ids
  <1>3. /\ offers' \in [Ids -> OfferRecords \cup {Nil}] /\ offers'[minted + 1] = o
        /\ \A i \in Ids : i # minted + 1 => offers'[i] = offers[i]
    BY <1>1, <1>2 DEF StoreInv
  <1>4. \A i \in Ids : i > minted => offers[i] = Nil /\ taken[i] = 0
    BY <1>1 DEF StoreInv, Ids
  <1>5. \A i \in Ids : offers'[i] # Nil => taken[i] = 0 /\ Asked(offers'[i]) /\ i <= minted + 1
    <2> TAKE i \in Ids
    <2>1. CASE i = minted + 1
      BY <1>1, <1>2, <1>3, <1>4, <2>1
    <2>2. CASE i # minted + 1
      BY <1>1, <1>3, <2>2 DEF StoreInv, Ids
    <2> QED BY <2>1, <2>2
  <1>6. \A i \in Ids : i > minted + 1 => taken[i] = 0
    BY <1>1, <1>4 DEF Ids
  <1>7. StoreInv'
    BY <1>1, <1>3, <1>5, <1>6 DEF StoreInv, Asked
  <1>8. StoreGrows
    BY <1>1, <1>3 DEF StoreGrows, Ids
  <1> QED BY <1>1, <1>2, <1>7, <1>8

LEMMA Taking ==
    ASSUME StoreInv, NEW r, NEW i \in (1 .. minted) \cup {Nil}, take(r, i), UNCHANGED minted
    PROVE  StoreInv' /\ StoreGrows
  <1>1. minted \in Nat /\ Nil \notin Ids /\ 1 .. minted \subseteq Ids
    BY OffersAssumption DEF StoreInv, Ids
  <1>2. CASE LiveOffer(i) = Nil
    <2>1. offers' = offers /\ taken' = taken
      BY <1>2 DEF take, LiveOffer, StoreInv
    <2> QED BY <2>1, StoreAlone
  <1>3. CASE LiveOffer(i) # Nil
    <2>1. i \in Ids /\ offers[i] # Nil /\ offers' = [offers EXCEPT ![i] = Nil] /\ taken[i] = 0
          /\ taken' = [taken EXCEPT ![i] = taken[i] + 1]
      BY <1>1, <1>3 DEF take, LiveOffer, StoreInv
    <2>2. /\ offers' \in [Ids -> OfferRecords \cup {Nil}] /\ taken' \in [Ids -> 0 .. 1] /\ offers'[i] = Nil
          /\ \A j \in Ids : j # i => offers'[j] = offers[j] /\ taken'[j] = taken[j]
      BY <2>1 DEF StoreInv
    <2>3. i <= minted
      BY <2>1 DEF StoreInv
    <2>4. \A j \in Ids : offers'[j] # Nil => taken'[j] = 0 /\ Asked(offers'[j]) /\ j <= minted
      BY <2>2 DEF StoreInv
    <2>5. \A j \in Ids : j > minted => taken'[j] = 0
      BY <1>1, <2>2, <2>3 DEF StoreInv, Ids
    <2>6. StoreInv'
      BY <2>2, <2>4, <2>5 DEF StoreInv, Asked
    <2>7. StoreGrows
      BY <1>1, <2>2 DEF StoreGrows
    <2> QED BY <2>6, <2>7
  <1> QED BY <1>2, <1>3

LEMMA OfferMade ==
    ASSUME NEW a \in Asks, NEW images, NEW t \in Templates, NEW l \in {Nil, "asked", "pending"},
           NEW artifact \in BOOLEAN, NEW research \in BOOLEAN
    PROVE  LET o == offer(a, images, t, l, artifact, research)
           IN  o \in OfferRecords /\ o.ask = a /\ o.lane = l /\ o.research = research
  <1>1. PICK no \in BOOLEAN : no = FALSE
    OBVIOUS
  <1>2. PICK ok \in BOOLEAN : ok = (images = "ok")
    <2>1. TRUE \in BOOLEAN /\ FALSE \in BOOLEAN
      OBVIOUS
    <2> QED BY <2>1, Zenon
  <1>3. PICK big \in BOOLEAN : big = (images = "big")
    <2>1. TRUE \in BOOLEAN /\ FALSE \in BOOLEAN
      OBVIOUS
    <2> QED BY <2>1, Zenon
  <1>4. offer(a, images, t, l, artifact, research) =
          [ask |-> a, images |-> ok, dropped |-> big, tmpl |-> t, lane |-> l, artifact |-> artifact,
           research |-> research, answer |-> no]
    BY <1>1, <1>2, <1>3 DEF offer
  <1> QED BY <1>4 DEF OfferRecords

-----------------------------------------------------------------------------
(* One send takes a step: what it now has in hand fits the store it leaves,     *)
(* and nobody else's does not.                                                *)
LEMMA OneMoves ==
    ASSUME OffersInv, NEW r \in Requests, NEW now \in Locals, req' = [req EXCEPT ![r] = now],
           Fits(now, offers', minted'), StoreInv', StoreGrows,
           UNCHANGED <<paid, searches, files, referenced, dark>>,
           now.search => req[r].search \/ searches < SearchCap,
           Admitted(now) => Admitted(req[r]) \/ files < GenCap
    PROVE  OffersInv'
  <1>1. req' \in [Requests -> Locals] /\ req'[r] = now /\ \A q \in Requests : q # r => req'[q] = req[q]
    BY DEF OffersInv
  <1>2. ASSUME NEW q \in Requests PROVE Fits(req'[q], offers', minted')
    <2>1. CASE q = r
      BY <1>1, <2>1
    <2>2. CASE q # r
      <3> DEFINE l == req[q]
      <3>1. Fits(l, offers, minted) /\ l \in Locals /\ minted \in Nat /\ minted <= MaxOffers
            /\ MaxOffers \in Nat
        BY OffersAssumption DEF OffersInv, StoreInv
      <3>2. req'[q] = l
        BY <1>1, <2>2
      <3> HIDE DEF l
      <3>3. l.pc # "idle" => l.send \in SendOf(minted') /\ l.about \in Asks
        BY <3>1 DEF Fits, SendOf, StoreGrows
      <3>4. l.pc = "offer" /\ l.send.echo # Nil =>
               offers'[l.send.echo] = Nil \/ Researched(l, offers'[l.send.echo])
        <4> SUFFICES ASSUME l.pc = "offer", l.send.echo # Nil, offers'[l.send.echo] # Nil
                     PROVE Researched(l, offers'[l.send.echo])
          OBVIOUS
        <4>1. l.send.echo \in 1 .. minted /\ l.send.echo \in Ids
          BY <3>1 DEF Fits, SendOf, Ids
        <4>2. offers[l.send.echo] # Nil /\ offers'[l.send.echo].research = offers[l.send.echo].research
          BY <4>1 DEF StoreGrows
        <4> QED BY <3>1, <4>2 DEF Fits, Researched
      <3>5. Fits(l, offers', minted')
        BY <3>1, <3>3, <3>4 DEF Fits
      <3> QED BY <3>2, <3>5
    <2> QED BY <2>1, <2>2
  <1>3. Searching' \subseteq Searching \/ searches < SearchCap
    BY <1>1 DEF Searching
  <1>4. Admits' \subseteq Admits \/ files < GenCap
    BY <1>1 DEF Admits
  <1>5. CountersInv'
    BY <1>3, <1>4, CountersMove DEF OffersInv
  <1> QED BY <1>1, <1>2, <1>5 DEF OffersInv

(* A send that is over leaves nothing behind.                                  *)
LEMMA OneEnds ==
    ASSUME OffersInv, NEW r \in Requests, End(r), StoreInv', StoreGrows,
           UNCHANGED <<paid, searches, files, referenced, dark>>
    PROVE  OffersInv'
  BY IdleFits, IdleAlwaysFits, OneMoves DEF End

LEMMA SendKept == ASSUME OffersInv, NEW r \in Requests, Send(r) PROVE OffersInv'
  <1>1. PICK a \in Asks, images \in {"none", "ok", "big"}, on, tap \in BOOLEAN,
             echo \in (1 .. minted) \cup {Nil}, call_type \in {"chat", "tr_interview_reference"} :
          /\ echo = Nil => ~tap
          /\ tap => ~a.words
          /\ echo # Nil => a \in Replies /\ images = "none"
          /\ images # "none" => a.marker
          /\ call_type = "tr_interview_reference" => echo = Nil /\ images = "none"
          /\ req' = [req EXCEPT ![r] = [Idle EXCEPT !.pc = "search", !.about = a, !.photo = images,
                                                  !.send = [on |-> on, tap |-> tap, echo |-> echo, call_type |-> call_type]]]
    BY DEF Send
  <1> DEFINE s == [on |-> on, tap |-> tap, echo |-> echo, call_type |-> call_type]
             now == [Idle EXCEPT !.pc = "search", !.about = a, !.photo = images, !.send = s]
  <1>2. minted \in 0 .. MaxOffers /\ MaxOffers \in Nat
    BY OffersAssumption DEF OffersInv, StoreInv
  <1>3. s \in SendOf(minted) /\ s \in SendOf(MaxOffers)
    BY <1>2 DEF SendOf
  <1> HIDE DEF s
  <1>4. /\ now \in Locals /\ now.pc = "search" /\ now.search = Idle.search /\ now.armed = Idle.armed
        /\ now.declined = Idle.declined /\ now.teaser = Nil /\ now.offer = Nil
        /\ now.send = s /\ now.about = a
    BY <1>3, IdleFits DEF Locals
  <1> HIDE DEF now
  <1>5. ~now.search /\ ~now.armed /\ ~now.declined
    BY <1>4, IdleFits
  <1>6. /\ StoreInv' /\ StoreGrows /\ minted' = minted
        /\ UNCHANGED <<paid, searches, files, referenced, dark>>
    BY StoreAlone DEF Send, OffersInv
  <1>7. Fits(now, offers', minted') /\ ~Admitted(now)
    BY <1>3, <1>4, <1>5, <1>6 DEF Fits, Admitted
  <1>8. req' = [req EXCEPT ![r] = now]
    BY <1>1 DEF now, s
  <1> QED BY <1>4, <1>5, <1>6, <1>7, <1>8, OneMoves

LEMMA SearchGateKept == ASSUME OffersInv, NEW r \in Requests, SearchGate(r) PROVE OffersInv'
  <1> DEFINE l == req[r]
             s == l.send
  <1>1. /\ StoreInv' /\ StoreGrows /\ minted' = minted /\ offers' = offers
        /\ UNCHANGED <<paid, searches, files, referenced, dark>>
    BY StoreAlone DEF SearchGate, OffersInv
  <1>2. l \in Locals /\ l.pc = "search" /\ Fits(l, offers, minted) /\ minted \in 0 .. MaxOffers
        /\ offers \in [Ids -> OfferRecords \cup {Nil}] /\ MaxOffers \in Nat
    BY OffersAssumption DEF SearchGate, OffersInv, StoreInv
  <1>3. CASE (s.on \/ inherited(s)) /\ ~paid
    BY <1>1, <1>3, OneEnds DEF SearchGate
  <1>4. CASE ~((s.on \/ inherited(s)) /\ ~paid)
    <2>0. TRUE \in BOOLEAN /\ FALSE \in BOOLEAN
      OBVIOUS
    <2>1. PICK k \in BOOLEAN : k = search_kept(s)
      <3>1. search_kept(s) = TRUE \/ search_kept(s) = FALSE
        BY DEF search_kept
      <3> QED BY <2>0, <3>1
    <2>2. PICK st \in BOOLEAN : st = ((s.on \/ inherited(s)) /\ ~search_kept(s))
      <3>1. CASE (s.on \/ inherited(s)) /\ ~search_kept(s)
        BY <2>0, <3>1, Zenon
      <3>2. CASE ~((s.on \/ inherited(s)) /\ ~search_kept(s))
        BY <2>0, <3>2, Zenon
      <3> QED BY <3>1, <3>2
    <2> DEFINE now == [l EXCEPT !.pc = "offer", !.search = k, !.stripped = st]
    <2>3. /\ now \in Locals /\ now.pc = "offer" /\ now.search = k /\ now.stripped = st
          /\ now.send = s /\ now.armed = l.armed /\ now.declined = l.declined /\ now.teaser = l.teaser
          /\ now.offer = l.offer /\ now.about = l.about
      BY <1>2 DEF Locals
    <2>4. req' = [req EXCEPT ![r] = now]
      BY <1>4, <2>1, <2>2 DEF SearchGate
    <2> HIDE DEF now
    <2>5. s \in SendOf(minted) /\ l.about \in Asks /\ ~l.armed /\ ~l.declined /\ l.teaser = Nil
      BY <1>2 DEF Fits
    <2>6. k => searches < SearchCap
      BY <2>1 DEF search_kept
    <2>7. ASSUME s.echo # Nil, offers[s.echo] # Nil PROVE Researched(now, offers[s.echo])
      <3>1. ~s.on /\ offers[s.echo].research => inherited(s)
        BY <2>7 DEF inherited, peek, LiveOffer
      <3>2. offers[s.echo].research => k \/ st
        BY <2>1, <2>2, <3>1
      <3> QED BY <2>3, <3>2 DEF Researched
    <2>8. l.offer = Nil
      BY <1>2 DEF Fits
    <2>9. Fits(now, offers', minted') /\ ~Admitted(now)
      BY <1>1, <2>3, <2>5, <2>7, <2>8 DEF Fits, Admitted
    <2> QED BY <1>1, <2>3, <2>4, <2>6, <2>9, OneMoves
  <1> QED BY <1>3, <1>4

LEMMA ArmAtCapKept == ASSUME OffersInv, NEW r \in Requests, ArmAtCap(r) PROVE OffersInv'
  <1> DEFINE l == req[r]
  <1>1. /\ StoreInv' /\ StoreGrows /\ minted' = minted /\ offers' = offers
        /\ UNCHANGED <<paid, searches, files, referenced, dark>>
    BY StoreAlone DEF ArmAtCap, OffersInv
  <1>2. l \in Locals /\ l.pc = "offer" /\ Fits(l, offers, minted)
    BY DEF ArmAtCap, OffersInv
  <1>3. PICK yes \in BOOLEAN : yes = TRUE
    OBVIOUS
  <1> DEFINE now == [l EXCEPT !.pc = "lane", !.armed = yes, !.why = "dark"]
  <1>4. /\ now \in Locals /\ now.pc = "lane" /\ now.armed = yes /\ now.why = "dark"
        /\ now.send = l.send /\ now.about = l.about /\ now.declined = l.declined /\ now.offer = l.offer
        /\ now.search = l.search
    BY <1>2 DEF Locals
  <1>5. req' = [req EXCEPT ![r] = now]
    BY <1>3 DEF ArmAtCap
  <1> HIDE DEF now
  <1>6. Fits(now, offers', minted') /\ ~Admitted(now)
    BY <1>1, <1>2, <1>4 DEF Fits, Admitted, Decided
  <1>7. now.search => l.search
    BY <1>4
  <1> QED BY <1>1, <1>4, <1>5, <1>6, <1>7, OneMoves

(* The offer a send names is its own, as it was minted.                        *)
LEMMA Named ==
    ASSUME OffersInv, NEW r \in Requests, req[r].pc = "offer"
    PROVE  LET l == req[r]
               o == LiveOffer(l.send.echo)
           IN  /\ l \in Locals /\ l.send \in SendOf(minted) /\ l.send.echo \in (1 .. minted) \cup {Nil}
               /\ l.about \in Asks /\ ~l.armed /\ ~l.declined /\ l.teaser = Nil /\ l.offer = Nil
               /\ o # Nil => /\ o \in OfferRecords /\ Asked(o) /\ Researched(l, o) /\ l.send.echo \in Ids
                             /\ l.send.echo # Nil
  <1> DEFINE l == req[r]
             o == LiveOffer(l.send.echo)
  <1>1. l \in Locals /\ Fits(l, offers, minted) /\ minted \in 0 .. MaxOffers /\ MaxOffers \in Nat
    BY OffersAssumption DEF OffersInv, StoreInv
  <1>2. l.send \in SendOf(minted) /\ l.about \in Asks /\ ~l.armed /\ ~l.declined /\ l.teaser = Nil /\ l.offer = Nil
    BY <1>1 DEF Fits
  <1>3. l.send.echo \in (1 .. minted) \cup {Nil}
    BY <1>2 DEF SendOf
  <1>4. ASSUME o # Nil
        PROVE o \in OfferRecords /\ Asked(o) /\ Researched(l, o) /\ l.send.echo \in Ids /\ l.send.echo # Nil
    <2>1. l.send.echo # Nil /\ o = offers[l.send.echo]
      BY <1>4 DEF LiveOffer
    <2>2. l.send.echo \in Ids
      BY <1>1, <1>3, <2>1 DEF Ids
    <2>3. o \in OfferRecords /\ Asked(o)
      BY <1>4, <2>1, <2>2 DEF OffersInv, StoreInv
    <2>4. Researched(l, o)
      BY <1>1, <1>4, <2>1 DEF Fits
    <2> QED BY <2>1, <2>2, <2>3, <2>4
  <1> QED BY <1>1, <1>2, <1>3, <1>4

LEMMA Photos ==
    ASSUME NEW l \in Locals, NEW o \in OfferRecords
    PROVE  /\ photo_of(l, o) \in {"none", "ok", "big"}
           /\ ~image_guard(l, o) => photo_of(l, o) # "none" \/ ~o.ask.marker
  BY DEF Locals, photo_of, image_guard

LEMMA ArmByTapKept == ASSUME OffersInv, NEW r \in Requests, ArmByTap(r) PROVE OffersInv'
  <1> DEFINE l == req[r]
             o == LiveOffer(l.send.echo)
  <1>1. /\ l.pc = "offer" /\ files < GenCap /\ l.send.tap /\ take(r, l.send.echo) /\ (o # Nil => o.lane # "pending")
        /\ minted' = minted /\ UNCHANGED <<paid, searches, files, referenced, dark>>
    BY DEF ArmByTap
  <1>2. /\ l \in Locals /\ l.send \in SendOf(minted) /\ l.send.echo \in (1 .. minted) \cup {Nil}
        /\ l.about \in Asks /\ ~l.armed /\ ~l.declined /\ l.teaser = Nil /\ l.offer = Nil
        /\ o # Nil => o \in OfferRecords /\ Asked(o) /\ Researched(l, o)
    BY <1>1, Named
  <1>3. StoreInv' /\ StoreGrows
    BY <1>1, <1>2, Taking DEF OffersInv
  <1>4. PICK yes \in BOOLEAN : yes = TRUE
    OBVIOUS
  <1>5. CASE o = Nil
    <2> DEFINE now == [l EXCEPT !.pc = "lane", !.armed = yes, !.why = "lost"]
    <2>1. /\ now \in Locals /\ now.pc = "lane" /\ now.armed = yes /\ now.why = "lost"
          /\ now.send = l.send /\ now.about = l.about /\ now.declined = l.declined /\ now.offer = Nil
          /\ now.search = l.search
      BY <1>2 DEF Locals
    <2>2. req' = [req EXCEPT ![r] = now]
      BY <1>4, <1>5 DEF ArmByTap
    <2> HIDE DEF now
    <2>3. Fits(now, offers', minted')
      BY <1>1, <1>2, <2>1 DEF Fits, Decided
    <2> QED BY <1>1, <1>3, <2>1, <2>2, <2>3, OneMoves
  <1>6. CASE o # Nil
    <2>1. PICK v \in BOOLEAN : v = (o.lane = "asked")
      <3>1. TRUE \in BOOLEAN /\ FALSE \in BOOLEAN
        OBVIOUS
      <3>2. CASE o.lane = "asked"
        BY <3>1, <3>2, Zenon
      <3>3. CASE o.lane # "asked"
        BY <3>1, <3>3, Zenon
      <3> QED BY <3>2, <3>3
    <2> DEFINE why == IF image_guard(l, o) THEN "dark" ELSE "tap"
               t == IF image_guard(l, o) THEN Nil ELSE o.tmpl
               now == [l EXCEPT !.pc = "lane", !.armed = yes, !.offer = o, !.about = o.ask,
                                !.photo = photo_of(l, o), !.version = v, !.why = why, !.tmpl = t]
    <2>2. o.ask \in Asks /\ o.tmpl \in Templates /\ o.lane \in {Nil, "asked", "pending"}
      BY <1>2, <1>6 DEF OfferRecords
    <2>3. t \in Templates /\ why \in {"dark", "tap"} /\ photo_of(l, o) \in {"none", "ok", "big"}
      BY <1>2, <1>6, <2>2, Photos DEF Templates
    <2>4. req' = [req EXCEPT ![r] = now]
      BY <1>4, <1>6, <2>1 DEF ArmByTap
    <2>5. why = "tap" => ~image_guard(l, o)
      OBVIOUS
    <2> HIDE DEF why, t
    <2>6. /\ now \in Locals /\ now.pc = "lane" /\ now.armed = yes /\ now.why = why /\ now.offer = o
          /\ now.send = l.send /\ now.about = o.ask /\ now.declined = l.declined /\ now.version = v
          /\ now.search = l.search /\ now.stripped = l.stripped /\ now.photo = photo_of(l, o)
      <3>1. PICK x \in OfferRecords, a \in Asks, p \in {"none", "ok", "big"}, m \in Locals :
              x = o /\ a = o.ask /\ p = photo_of(l, o) /\ m = l
        BY <1>2, <1>6, <2>2, <2>3
      <3>2. now = [m EXCEPT !.pc = "lane", !.armed = yes, !.offer = x, !.about = a, !.photo = p,
                            !.version = v, !.why = why, !.tmpl = t]
        BY <3>1
      <3> HIDE DEF now, o, l
      <3>3. [m EXCEPT !.pc = "lane", !.armed = yes, !.offer = x, !.about = a, !.photo = p,
                      !.version = v, !.why = why, !.tmpl = t] \in Locals
        BY <2>3 DEF Locals
      <3>4. /\ now.pc = "lane" /\ now.armed = yes /\ now.why = why /\ now.offer = x
            /\ now.send = m.send /\ now.about = a /\ now.declined = m.declined /\ now.version = v
            /\ now.search = m.search /\ now.stripped = m.stripped /\ now.photo = p
        BY <3>2 DEF Locals
      <3> QED BY <3>1, <3>2, <3>3, <3>4
    <2> HIDE DEF now
    <2>7. Decided(now)
      <3>1. why = "dark" \/ (why = "tap" /\ (o.ask.marker => photo_of(l, o) # "none"))
        BY <1>2, <1>6, <2>3, <2>5, Photos
      <3>2. o.ask.ambiguous => v
        BY <1>1, <1>2, <1>6, <2>1, <2>2 DEF Asked
      <3> QED BY <1>1, <2>6, <3>1, <3>2 DEF Decided
    <2>8. Fits(now, offers', minted')
      BY <1>1, <1>2, <1>6, <2>2, <2>6, <2>7 DEF Fits, Researched
    <2> QED BY <1>1, <1>3, <2>4, <2>6, <2>8, OneMoves
  <1> QED BY <1>5, <1>6

(* The version question asks about the same plan, and forgets no research.      *)
LEMMA QuestionMade ==
    ASSUME NEW o \in OfferRecords
    PROVE  lane_question(o) \in OfferRecords /\ Asked(lane_question(o))
  <1>1. PICK no \in BOOLEAN : no = FALSE
    OBVIOUS
  <1>2. "detailed" \in Templates /\ o.ask \in Asks /\ o.research \in BOOLEAN
    BY DEF Templates, OfferRecords
  <1>3. lane_question(o) = offer(o.ask, IF o.images THEN "ok" ELSE "none", "detailed", "asked", no, o.research)
    BY <1>1 DEF lane_question
  <1> DEFINE images == IF o.images THEN "ok" ELSE "none"
  <1> HIDE DEF images
  <1>4. LET q == offer(o.ask, images, "detailed", "asked", no, o.research)
        IN  q \in OfferRecords /\ q.lane = "asked"
    BY <1>2, OfferMade
  <1>5. lane_question(o) \in OfferRecords /\ lane_question(o).lane = "asked"
    BY <1>3, <1>4 DEF images
  <1> QED BY <1>5 DEF Asked

LEMMA QuestionForTapKept == ASSUME OffersInv, NEW r \in Requests, QuestionForTap(r) PROVE OffersInv'
  <1> DEFINE l == req[r]
             i == l.send.echo
             o == LiveOffer(i)
             q == lane_question(o)
             n == minted + 1
  <1>1. /\ l.pc = "offer" /\ o # Nil /\ minted < MaxOffers /\ minted' = n /\ End(r)
        /\ offers' = [offers EXCEPT ![i] = Nil, ![n] = q] /\ taken' = [taken EXCEPT ![i] = taken[i] + 1]
        /\ UNCHANGED <<paid, searches, files, referenced, dark>>
    BY DEF QuestionForTap
  <1>2. o \in OfferRecords /\ i \in Ids /\ i \in 1 .. minted /\ i # Nil
    BY <1>1, Named
  <1>3. q \in OfferRecords /\ Asked(q)
    BY <1>2, QuestionMade
  <1>4. minted \in Nat /\ n \in Ids /\ i # n /\ i <= minted /\ MaxOffers \in Nat /\ offers[i] # Nil
    BY <1>1, <1>2, OffersAssumption DEF OffersInv, StoreInv, Ids, LiveOffer
  <1> HIDE DEF q, o, i, n
  <1>5. /\ offers' \in [Ids -> OfferRecords \cup {Nil}] /\ offers'[i] = Nil /\ offers'[n] = q
        /\ \A j \in Ids : j # i /\ j # n => offers'[j] = offers[j]
    BY <1>1, <1>2, <1>3, <1>4 DEF OffersInv, StoreInv
  <1>6. /\ taken' \in [Ids -> 0 .. 1] /\ \A j \in Ids : j # i => taken'[j] = taken[j]
    BY <1>1, <1>2, <1>4 DEF OffersInv, StoreInv
  <1>7. \A j \in Ids : j > minted => taken[j] = 0
    BY DEF OffersInv, StoreInv
  <1>8. \A j \in Ids : offers'[j] # Nil => taken'[j] = 0 /\ Asked(offers'[j]) /\ j <= n
    <2> TAKE j \in Ids
    <2>1. CASE j = n
      BY <1>3, <1>4, <1>5, <1>6, <1>7, <2>1 DEF n
    <2>2. CASE j # n
      BY <1>4, <1>5, <1>6, <2>2 DEF OffersInv, StoreInv, n, Ids
    <2> QED BY <2>1, <2>2
  <1>9. \A j \in Ids : j > n => taken'[j] = 0
    BY <1>4, <1>6, <1>7 DEF n, Ids
  <1>10. StoreInv'
    BY <1>1, <1>4, <1>5, <1>6, <1>8, <1>9 DEF StoreInv, Asked, n
  <1>11. StoreGrows
    BY <1>1, <1>4, <1>5 DEF StoreGrows, n
  <1> QED BY <1>1, <1>10, <1>11, OneEnds

LEMMA TakeForReplyKept == ASSUME OffersInv, NEW r \in Requests, TakeForReply(r) PROVE OffersInv'
  <1> DEFINE l == req[r]
             o == LiveOffer(l.send.echo)
             pc == IF o = Nil THEN "intent" ELSE "reply"
  <1>1. /\ l.pc = "offer" /\ files < GenCap /\ take(r, l.send.echo)
        /\ minted' = minted /\ UNCHANGED <<paid, searches, files, referenced, dark>>
        /\ req' = [req EXCEPT ![r].pc = pc, ![r].offer = o]
    BY DEF TakeForReply
  <1>2. /\ l \in Locals /\ l.send \in SendOf(minted) /\ l.send.echo \in (1 .. minted) \cup {Nil}
        /\ l.about \in Asks /\ ~l.armed /\ ~l.declined /\ l.teaser = Nil /\ l.offer = Nil
        /\ o # Nil => o \in OfferRecords /\ Asked(o) /\ Researched(l, o)
    BY <1>1, Named
  <1>3. StoreInv' /\ StoreGrows
    BY <1>1, <1>2, Taking DEF OffersInv
  <1>4. o \in OfferRecords \cup {Nil} /\ pc \in {"intent", "reply"} /\ (pc = "intent" <=> o = Nil)
    BY <1>2
  <1> DEFINE now == [l EXCEPT !.pc = pc, !.offer = o]
  <1>5. req' = [req EXCEPT ![r] = now]
    BY <1>1
  <1> HIDE DEF o, pc
  <1>6. now \in Locals
    BY <1>2, <1>4 DEF Locals
  <1>7. /\ now.pc = pc /\ now.offer = o /\ now.send = l.send /\ now.about = l.about
        /\ now.armed = l.armed /\ now.declined = l.declined /\ now.teaser = l.teaser
        /\ now.search = l.search /\ now.stripped = l.stripped
    BY <1>2 DEF Locals
  <1> HIDE DEF now, l
  <1>8. Fits(now, offers', minted')
    BY <1>1, <1>2, <1>4, <1>7 DEF Fits, Researched
  <1>9. now.search => l.search
    BY <1>7
  <1> QED BY <1>1, <1>3, <1>5, <1>6, <1>8, <1>9, OneMoves DEF l

(* What a judged reply has in hand.                                            *)
LEMMA Replying ==
    ASSUME OffersInv, NEW r \in Requests, req[r].pc = "reply"
    PROVE  LET l == req[r]
           IN  /\ l \in Locals /\ Fits(l, offers, minted) /\ Admitted(l)
               /\ l.send \in SendOf(minted) /\ l.about \in Asks /\ ~l.armed /\ ~l.declined /\ l.teaser = Nil
               /\ l.offer # Nil /\ l.offer \in OfferRecords /\ Asked(l.offer) /\ Researched(l, l.offer)
  <1>1. req[r] \in Locals /\ Fits(req[r], offers, minted)
    BY DEF OffersInv
  <1>2. req[r].offer # Nil /\ req[r].offer \in OfferRecords \cup {Nil}
    BY <1>1 DEF Fits, Locals
  <1> QED BY <1>1, <1>2 DEF Fits, Admitted

LEMMA DeclineKept == ASSUME OffersInv, NEW r \in Requests, Decline(r) PROVE OffersInv'
  <1> DEFINE l == req[r]
  <1>1. /\ StoreInv' /\ StoreGrows /\ minted' = minted /\ offers' = offers
        /\ UNCHANGED <<paid, searches, files, referenced, dark>>
    BY StoreAlone DEF Decline, OffersInv
  <1>2. l.pc = "reply"
    BY DEF Decline
  <1>3. PICK yes \in BOOLEAN : yes = TRUE
    OBVIOUS
  <1> DEFINE now == [l EXCEPT !.pc = "lane", !.declined = yes]
  <1>4. /\ now \in Locals /\ now.pc = "lane" /\ now.declined = yes /\ now.armed = l.armed
        /\ now.send = l.send /\ now.about = l.about /\ now.teaser = l.teaser /\ now.offer = l.offer
        /\ now.search = l.search /\ now.stripped = l.stripped
    BY <1>2, Replying DEF Locals
  <1>5. req' = [req EXCEPT ![r] = now]
    BY <1>3 DEF Decline, after_decline
  <1> HIDE DEF now
  <1>6. Fits(now, offers', minted') /\ ~Admitted(now)
    BY <1>1, <1>2, <1>4, Replying DEF Fits, Admitted, Researched
  <1>7. now.search => l.search
    BY <1>4
  <1> QED BY <1>1, <1>4, <1>5, <1>6, <1>7, OneMoves

LEMMA QuestionForReplyKept == ASSUME OffersInv, NEW r \in Requests, QuestionForReply(r) PROVE OffersInv'
  <1>1. req[r].offer \in OfferRecords
    BY Replying DEF QuestionForReply
  <1>2. lane_question(req[r].offer) \in OfferRecords /\ Asked(lane_question(req[r].offer))
    BY <1>1, QuestionMade
  <1>3. StoreInv' /\ StoreGrows
    BY <1>2, Minting DEF QuestionForReply, OffersInv
  <1> QED BY <1>3, OneEnds DEF QuestionForReply

LEMMA ConfirmKept == ASSUME OffersInv, NEW r \in Requests, Confirm(r) PROVE OffersInv'
  <1> DEFINE l == req[r]
             o == l.offer
             guarded == image_guard(l, o)
  <1>1. /\ StoreInv' /\ StoreGrows /\ minted' = minted /\ offers' = offers
        /\ UNCHANGED <<paid, searches, files, referenced, dark>>
    BY StoreAlone DEF Confirm, OffersInv
  <1>2. /\ l.pc = "reply" /\ l \in Locals /\ Fits(l, offers, minted) /\ Admitted(l)
        /\ l.send \in SendOf(minted) /\ l.about \in Asks /\ ~l.declined /\ l.teaser = Nil
        /\ o # Nil /\ o \in OfferRecords /\ Asked(o) /\ Researched(l, o)
    BY Replying DEF Confirm
  <1>3. PICK version \in {Nil, "workbook", "custom"}, xlsx \in BOOLEAN :
          /\ o.lane = "pending" => version # Nil
          /\ version # Nil => o.lane # Nil
          /\ ~xlsx => o.lane = "asked"
          /\ LET tmpl == IF o.lane = Nil THEN o.tmpl
                         ELSE IF version = "custom" \/ ~xlsx THEN Nil ELSE "detailed"
             IN  req' = [req EXCEPT ![r] = [l EXCEPT
                    !.pc = "lane", !.about = o.ask, !.photo = photo_of(l, o),
                    !.armed = ~guarded, !.tmpl = IF guarded THEN Nil ELSE tmpl,
                    !.contract = ~guarded /\ o.tmpl = Nil /\ o.artifact,
                    !.why = "reply", !.version = (o.lane # Nil)]]
    BY DEF Confirm
  <1> DEFINE tmpl == IF o.lane = Nil THEN o.tmpl ELSE IF version = "custom" \/ ~xlsx THEN Nil ELSE "detailed"
             t == IF guarded THEN Nil ELSE tmpl
  <1>4. t \in Templates /\ o.ask \in Asks /\ o.lane \in {Nil, "asked", "pending"}
    BY <1>2 DEF Templates, OfferRecords
  <1>5. /\ photo_of(l, o) \in {"none", "ok", "big"}
        /\ ~guarded => photo_of(l, o) # "none" \/ ~o.ask.marker
    BY <1>2, Photos
  <1>6. TRUE \in BOOLEAN /\ FALSE \in BOOLEAN
    OBVIOUS
  <1>7. PICK g \in BOOLEAN : g = ~guarded
    <2>1. CASE guarded
      BY <1>6, <2>1, Zenon
    <2>2. CASE ~guarded
      BY <1>6, <2>2, Zenon
    <2> QED BY <2>1, <2>2
  <1>8. PICK c \in BOOLEAN : c = (~guarded /\ o.tmpl = Nil /\ o.artifact)
    <2>1. CASE ~guarded /\ o.tmpl = Nil /\ o.artifact
      BY <1>6, <2>1, Zenon
    <2>2. CASE ~(~guarded /\ o.tmpl = Nil /\ o.artifact)
      BY <1>6, <2>2, Zenon
    <2> QED BY <2>1, <2>2
  <1>9. PICK v \in BOOLEAN : v = (o.lane # Nil)
    <2>1. CASE o.lane # Nil
      BY <1>6, <2>1, Zenon
    <2>2. CASE o.lane = Nil
      BY <1>6, <2>2, Zenon
    <2> QED BY <2>1, <2>2
  <1> DEFINE now == [l EXCEPT !.pc = "lane", !.about = o.ask, !.photo = photo_of(l, o), !.armed = g,
                              !.tmpl = t, !.contract = c, !.why = "reply", !.version = v]
  <1>10. req' = [req EXCEPT ![r] = now]
    BY <1>3, <1>7, <1>8, <1>9
  <1>11. PICK a \in Asks, p \in {"none", "ok", "big"} : a = o.ask /\ p = photo_of(l, o)
    BY <1>4, <1>5
  <1>12. now = [l EXCEPT !.pc = "lane", !.about = a, !.photo = p, !.armed = g,
                         !.tmpl = t, !.contract = c, !.why = "reply", !.version = v]
    BY <1>11
  <1>13. ~g \/ ((a.ambiguous => v) /\ (a.marker => p # "none"))
    BY <1>2, <1>5, <1>7, <1>9, <1>11, OffersAssumption DEF Asked
  <1> HIDE DEF now, t, guarded
  <1>14. l \in Locals /\ t \in Templates
    BY <1>2, <1>4
  <1> HIDE DEF o, l
  <1>15. [l EXCEPT !.pc = "lane", !.about = a, !.photo = p, !.armed = g,
                   !.tmpl = t, !.contract = c, !.why = "reply", !.version = v] \in Locals
    BY <1>14 DEF Locals
  <1>16. /\ now.pc = "lane" /\ now.about = a /\ now.photo = p /\ now.armed = g /\ now.why = "reply"
         /\ now.version = v /\ now.send = l.send /\ now.declined = l.declined /\ now.offer = l.offer
         /\ now.search = l.search /\ now.stripped = l.stripped /\ now.teaser = l.teaser
    BY <1>12, <1>14 DEF Locals
  <1>17. l.offer = o
    BY DEF o
  <1>18. now.armed => Decided(now)
    BY <1>2, <1>13, <1>16, <1>17 DEF Decided
  <1>19. Fits(now, offers', minted')
    BY <1>1, <1>2, <1>11, <1>16, <1>17, <1>18 DEF Fits, Researched
  <1>20. now \in Locals /\ (now.search => l.search)
    BY <1>12, <1>15, <1>16
  <1> QED BY <1>1, <1>2, <1>10, <1>19, <1>20, OneMoves DEF l

(* What a send that answers nothing has in hand while its words are judged.     *)
LEMMA Judging ==
    ASSUME OffersInv, NEW r \in Requests, req[r].pc = "intent"
    PROVE  LET l == req[r]
           IN  /\ l \in Locals /\ Fits(l, offers, minted) /\ Admitted(l) /\ l.send \in SendOf(minted)
               /\ l.about \in Asks /\ ~l.armed /\ ~l.declined /\ l.teaser = Nil /\ l.offer = Nil
               /\ search_enabled(l) \in BOOLEAN
  <1>1. TRUE \in BOOLEAN /\ FALSE \in BOOLEAN
    OBVIOUS
  <1>2. search_enabled(req[r]) \in BOOLEAN
    <2>1. CASE search_enabled(req[r])
      BY <1>1, <2>1, Zenon DEF search_enabled
    <2>2. CASE ~search_enabled(req[r])
      BY <1>1, <2>2, Zenon DEF search_enabled
    <2> QED BY <2>1, <2>2
  <1> QED BY <1>2 DEF OffersInv, Fits, Admitted, Locals

LEMMA FastPathKept == ASSUME OffersInv, NEW r \in Requests, FastPath(r) PROVE OffersInv'
  <1> DEFINE l == req[r]
  <1>1. /\ StoreInv' /\ StoreGrows /\ minted' = minted /\ offers' = offers
        /\ UNCHANGED <<paid, searches, files, referenced, dark>>
    BY StoreAlone DEF FastPath, OffersInv
  <1>2. /\ l \in Locals /\ Fits(l, offers, minted) /\ Admitted(l) /\ l.send \in SendOf(minted)
        /\ l.about \in Asks /\ ~l.armed /\ ~l.declined /\ l.teaser = Nil /\ l.offer = Nil
    BY Judging DEF FastPath
  <1>3. fast_path(l) /\ (l.about.explicit \/ l.about.words)
    BY DEF FastPath, Readings
  <1>4. PICK c \in BOOLEAN : req' = [req EXCEPT ![r].pc = "lane", ![r].armed = TRUE, ![r].contract = c, ![r].why = "asked"]
    BY DEF FastPath
  <1>5. PICK yes \in BOOLEAN : yes = TRUE
    OBVIOUS
  <1> DEFINE now == [l EXCEPT !.pc = "lane", !.armed = yes, !.contract = c, !.why = "asked"]
  <1>6. now \in Locals
    BY <1>2 DEF Locals
  <1>7. /\ now.pc = "lane" /\ now.armed = yes /\ now.why = "asked" /\ now.declined = l.declined
        /\ now.send = l.send /\ now.about = l.about /\ now.teaser = l.teaser /\ now.offer = l.offer
        /\ now.search = l.search /\ now.stripped = l.stripped /\ now.photo = l.photo /\ now.version = l.version
    BY <1>2 DEF Locals
  <1>8. req' = [req EXCEPT ![r] = now]
    BY <1>4, <1>5
  <1> HIDE DEF now
  <1>9. Decided(now)
    BY <1>3, <1>7 DEF Decided, fast_path, search_enabled
  <1>10. Fits(now, offers', minted')
    BY <1>1, <1>2, <1>7, <1>9 DEF Fits
  <1>11. now.search => l.search
    BY <1>7
  <1> QED BY <1>1, <1>2, <1>6, <1>8, <1>10, <1>11, OneMoves

LEMMA OfferKept == ASSUME OffersInv, NEW r \in Requests, Offer(r) PROVE OffersInv'
  <1> DEFINE l == req[r]
             a == l.about
  <1>1. a \in Asks /\ search_enabled(l) \in BOOLEAN
    BY Judging DEF Offer
  <1>2. PICK artifact \in BOOLEAN :
          /\ artifact => a.tmpl = Nil /\ ~a.ambiguous
          /\ create(offer(a, l.photo, IF a.ambiguous THEN "detailed" ELSE a.tmpl,
                          IF a.ambiguous THEN "asked" ELSE Nil, artifact, search_enabled(l)))
    BY DEF Offer
  <1> DEFINE t == IF a.ambiguous THEN "detailed" ELSE a.tmpl
             q == IF a.ambiguous THEN "asked" ELSE Nil
             o == offer(a, l.photo, t, q, artifact, search_enabled(l))
  <1>3. t \in Templates /\ q \in {Nil, "asked", "pending"} /\ (a.ambiguous => q = "asked")
    BY <1>1 DEF Templates
  <1>4. create(o)
    BY <1>2
  <1> HIDE DEF t, q
  <1>5. o \in OfferRecords /\ o.ask = a /\ o.lane = q
    <2> HIDE DEF l, a
    <2>1. artifact \in BOOLEAN
      OBVIOUS
    <2> QED BY <1>1, <1>3, <2>1, OfferMade
  <1> HIDE DEF o
  <1>6. Asked(o)
    BY <1>3, <1>5 DEF Asked
  <1>7. StoreInv' /\ StoreGrows
    BY <1>4, <1>5, <1>6, Minting DEF Offer, OffersInv
  <1> QED BY <1>7, OneEnds DEF Offer

LEMMA TeaserKept == ASSUME OffersInv, NEW r \in Requests, Teaser(r) PROVE OffersInv'
  <1> DEFINE l == req[r]
             a == l.about
             q == IF a.ambiguous THEN "pending" ELSE Nil
  <1>1. /\ l \in Locals /\ Fits(l, offers, minted) /\ l.send \in SendOf(minted)
        /\ a \in Asks /\ ~l.armed /\ ~l.declined /\ l.teaser = Nil /\ l.offer = Nil
        /\ search_enabled(l) \in BOOLEAN
    BY Judging DEF Teaser
  <1>2. PICK no \in BOOLEAN : no = FALSE
    OBVIOUS
  <1> DEFINE o == offer(a, l.photo, a.tmpl, q, no, search_enabled(l))
  <1>3. create(o)
    BY <1>2 DEF Teaser
  <1>4. a.tmpl \in Templates /\ q \in {Nil, "asked", "pending"} /\ (a.ambiguous => q = "pending")
    BY <1>1 DEF Templates
  <1> HIDE DEF q
  <1>5. o \in OfferRecords /\ o.ask = a /\ o.lane = q
    BY <1>1, <1>4, OfferMade
  <1> HIDE DEF o
  <1>6. Asked(o)
    BY <1>4, <1>5 DEF Asked
  <1>7. StoreInv' /\ StoreGrows /\ minted' = minted + 1 /\ minted + 1 \in Ids
    BY <1>3, <1>5, <1>6, Minting DEF Teaser, OffersInv
  <1> DEFINE now == [l EXCEPT !.pc = "lane", !.teaser = minted + 1]
  <1>8. now \in Locals
    BY <1>1, <1>7 DEF Locals
  <1>9. /\ now.pc = "lane" /\ now.armed = l.armed /\ now.declined = l.declined
        /\ now.send = l.send /\ now.about = a /\ now.offer = l.offer /\ now.search = l.search
    BY <1>1 DEF Locals
  <1>10. req' = [req EXCEPT ![r] = now] /\ UNCHANGED <<paid, searches, files, referenced, dark>>
    BY DEF Teaser
  <1> HIDE DEF now
  <1>11. now.send \in SendOf(minted')
    BY <1>1, <1>7, <1>9 DEF SendOf, OffersInv, StoreInv
  <1>12. Fits(now, offers', minted') /\ ~Admitted(now)
    BY <1>1, <1>9, <1>11 DEF Fits, Admitted
  <1>13. now.search => l.search
    BY <1>9
  <1> QED BY <1>7, <1>8, <1>10, <1>12, <1>13, OneMoves

LEMMA PlainAnswerKept == ASSUME OffersInv, NEW r \in Requests, PlainAnswer(r) PROVE OffersInv'
  <1> DEFINE l == req[r]
             now == [l EXCEPT !.pc = "lane"]
  <1>1. /\ StoreInv' /\ StoreGrows /\ minted' = minted /\ offers' = offers
        /\ UNCHANGED <<paid, searches, files, referenced, dark>>
    BY StoreAlone DEF PlainAnswer, OffersInv
  <1>2. l \in Locals /\ Fits(l, offers, minted) /\ l.pc \in {"intent", "offer"}
    BY DEF PlainAnswer, OffersInv
  <1>3. /\ now \in Locals /\ now.pc = "lane" /\ now.armed = l.armed /\ now.declined = l.declined
        /\ now.send = l.send /\ now.about = l.about /\ now.teaser = l.teaser /\ now.offer = l.offer
        /\ now.search = l.search /\ now.stripped = l.stripped
    BY <1>2 DEF Locals
  <1>4. req' = [req EXCEPT ![r] = now]
    BY DEF PlainAnswer
  <1> HIDE DEF now
  <1>5. Fits(now, offers', minted') /\ ~Admitted(now)
    BY <1>1, <1>2, <1>3 DEF Fits, Admitted
  <1>6. now.search => l.search
    BY <1>3
  <1> QED BY <1>1, <1>3, <1>4, <1>5, <1>6, OneMoves

LEMMA LaneKept == ASSUME OffersInv, NEW r \in Requests, Lane(r) PROVE OffersInv'
  <1> DEFINE l == req[r]
             way == lane(l)
             now == [l EXCEPT !.pc = "run", !.lane = way]
  <1>1. /\ StoreInv' /\ StoreGrows /\ minted' = minted /\ offers' = offers
        /\ UNCHANGED <<paid, searches, files, referenced, dark>>
    BY StoreAlone DEF Lane, OffersInv
  <1>2. l \in Locals /\ Fits(l, offers, minted) /\ l.pc = "lane"
    BY DEF Lane, OffersInv
  <1>3. way \in {"none", "contract", "template", "sandbox"} /\ (way # "none" => l.armed)
    BY DEF lane
  <1>4. req' = [req EXCEPT ![r] = now]
    BY DEF Lane
  <1> HIDE DEF way
  <1>5. now \in Locals
    BY <1>2, <1>3 DEF Locals
  <1>6. /\ now.pc = "run" /\ now.lane = way /\ now.armed = l.armed /\ now.declined = l.declined
        /\ now.send = l.send /\ now.about = l.about /\ now.teaser = l.teaser /\ now.offer = l.offer
        /\ now.search = l.search /\ now.stripped = l.stripped /\ now.why = l.why
        /\ now.version = l.version /\ now.photo = l.photo
    BY <1>2 DEF Locals
  <1> HIDE DEF now
  <1>7. Fits(now, offers', minted')
    BY <1>1, <1>2, <1>3, <1>6 DEF Fits, Decided, Researched, search_enabled
  <1>8. (now.search => l.search) /\ (Admitted(now) => Admitted(l))
    BY <1>2, <1>6 DEF Admitted
  <1> QED BY <1>1, <1>4, <1>5, <1>7, <1>8, OneMoves

LEMMA FailSendKept == ASSUME OffersInv, NEW r \in Requests, FailSend(r) PROVE OffersInv'
  BY StoreAlone, OneEnds DEF FailSend, OffersInv

(* An offer that runs out, and a process that goes, let in nobody.             *)
LEMMA ForgettingFits ==
    ASSUME NEW l, NEW store, NEW n, Fits(l, offers, n), l.pc # "idle" => l.send \in SendOf(n), n \in Nat,
           \A i \in 1 .. n : store[i] = Nil \/ (offers[i] # Nil /\ store[i].research = offers[i].research)
    PROVE  Fits(l, store, n)
  <1>1. ASSUME l.pc = "offer", l.send.echo # Nil, store[l.send.echo] # Nil
        PROVE  Researched(l, store[l.send.echo])
    <2>1. l.send.echo \in 1 .. n
      BY <1>1 DEF SendOf
    <2>2. offers[l.send.echo] # Nil /\ store[l.send.echo].research = offers[l.send.echo].research
      BY <1>1, <2>1
    <2> QED BY <1>1, <2>2 DEF Fits, Researched
  <1> QED BY <1>1 DEF Fits

LEMMA ExpireKept == ASSUME OffersInv, NEW i \in Ids, Expire(i) PROVE OffersInv'
  <1>1. /\ offers' = [offers EXCEPT ![i] = Nil]
        /\ UNCHANGED <<paid, minted, searches, files, req, taken, referenced, dark>>
    BY DEF Expire
  <1>2. minted \in Nat /\ 1 .. minted \subseteq Ids
    BY OffersAssumption DEF OffersInv, StoreInv, Ids
  <1>3. /\ offers' \in [Ids -> OfferRecords \cup {Nil}] /\ offers'[i] = Nil
        /\ \A j \in Ids : j # i => offers'[j] = offers[j]
    BY <1>1 DEF OffersInv, StoreInv
  <1>4. StoreInv'
    BY <1>1, <1>3 DEF OffersInv, StoreInv, Asked
  <1>5. \A j \in 1 .. minted : offers'[j] = Nil \/ (offers[j] # Nil /\ offers'[j].research = offers[j].research)
    BY <1>2, <1>3
  <1>6. ASSUME NEW q \in Requests PROVE Fits(req'[q], offers', minted')
    <2>1. Fits(req[q], offers, minted) /\ (req[q].pc # "idle" => req[q].send \in SendOf(minted))
      BY DEF OffersInv, Fits
    <2>2. Fits(req[q], offers', minted)
      BY <1>2, <1>5, <2>1, ForgettingFits
    <2> QED BY <1>1, <2>2
  <1>7. CountersInv'
    BY <1>1 DEF OffersInv, CountersInv, Searching, Admits
  <1> QED BY <1>1, <1>4, <1>6, <1>7 DEF OffersInv

LEMMA OffersRestartKept == ASSUME OffersInv, OffersRestart PROVE OffersInv'
  <1>1. /\ offers' = [i \in Ids |-> Nil] /\ req' = [q \in Requests |-> Idle]
        /\ UNCHANGED <<paid, minted, searches, files, taken, referenced, dark>>
    BY DEF OffersRestart
  <1>2. StoreInv'
    BY <1>1 DEF OffersInv, StoreInv
  <1>3. req' \in [Requests -> Locals] /\ \A q \in Requests : Fits(req'[q], offers', minted')
    BY <1>1, IdleFits, IdleAlwaysFits
  <1>4. Searching' \subseteq Searching /\ Admits' \subseteq Admits
    BY <1>1, IdleFits, IdleAlwaysFits DEF Searching, Admits
  <1>5. CountersInv'
    BY <1>1, <1>4, CountersMove DEF OffersInv
  <1> QED BY <1>1, <1>2, <1>3, <1>5 DEF OffersInv

(* The answer: what it charges was admitted, and its sender is admitted no more. *)
LEMMA FinishKept == ASSUME OffersInv, NEW r \in Requests, Finish(r) PROVE OffersInv'
  <1> DEFINE l == req[r]
  <1>1. /\ l \in Locals /\ Fits(l, offers, minted) /\ l.pc = "run"
        /\ req' = [req EXCEPT ![r] = Idle] /\ attach_answer(l.teaser)
        /\ UNCHANGED <<paid, minted, taken>>
    BY DEF Finish, OffersInv, End
  <1>2. minted \in Nat /\ 1 .. minted \subseteq Ids /\ MaxUses \in Nat /\ SearchCap \in Nat /\ GenCap \in Nat
    BY OffersAssumption DEF OffersInv, StoreInv, Ids
  <1>3. PICK staged \in staged_by(l), n \in 0 .. MaxUses :
          /\ n > 0 => search_enabled(l)
          /\ files' = files + (IF staged THEN 1 ELSE 0)
          /\ dark' = dark + (IF staged /\ l.why = "dark" THEN 1 ELSE 0)
          /\ searches' = searches + n
          /\ referenced' = referenced + (IF l.search THEN 0 ELSE n)
    BY DEF Finish
  <1>4. /\ offers' \in [Ids -> OfferRecords \cup {Nil}]
        /\ \A i \in Ids : \/ offers'[i] = Nil /\ offers[i] = Nil
                          \/ /\ offers'[i] # Nil /\ offers[i] # Nil /\ offers'[i].research = offers[i].research
                             /\ Asked(offers[i]) /\ Asked(offers'[i])
    <2>1. \A i \in Ids : offers[i] # Nil => Asked(offers[i])
      BY DEF OffersInv, StoreInv
    <2>2. CASE l.teaser = Nil \/ offers[l.teaser] = Nil
      BY <1>1, <2>1, <2>2 DEF attach_answer, OffersInv, StoreInv
    <2>3. CASE ~(l.teaser = Nil \/ offers[l.teaser] = Nil)
      <3> DEFINE t == l.teaser
                 o == offers[t]
      <3>1. t \in Ids /\ o \in OfferRecords /\ o # Nil
        BY <1>1, <2>3 DEF Locals, OffersInv, StoreInv
      <3>2. PICK yes \in BOOLEAN : yes = TRUE
        OBVIOUS
      <3> DEFINE now == [o EXCEPT !.answer = yes]
      <3>3. /\ now \in OfferRecords /\ now.research = o.research /\ now.ask = o.ask /\ now.lane = o.lane
        BY <3>1 DEF OfferRecords
      <3>4. offers' = [offers EXCEPT ![t] = now]
        BY <1>1, <2>3, <3>2 DEF attach_answer
      <3> HIDE DEF now
      <3>5. now # Nil /\ Asked(o) /\ Asked(now)
        BY <2>1, <3>1, <3>3, OffersAssumption DEF Asked
      <3>6. offers \in [Ids -> OfferRecords \cup {Nil}]
        BY DEF OffersInv, StoreInv
      <3> QED BY <2>1, <3>1, <3>3, <3>4, <3>5, <3>6
    <2> QED BY <2>2, <2>3
  <1>5. StoreInv'
    BY <1>1, <1>4 DEF OffersInv, StoreInv, Asked
  <1>6. /\ req' \in [Requests -> Locals] /\ req'[r] = Idle
        /\ \A q \in Requests : q # r => req'[q] = req[q]
    BY <1>1, IdleFits DEF OffersInv
  <1>7. ASSUME NEW q \in Requests PROVE Fits(req'[q], offers', minted')
    <2>1. CASE q = r
      BY <1>6, <2>1, IdleAlwaysFits
    <2>2. CASE q # r
      <3>1. Fits(req[q], offers, minted) /\ (req[q].pc # "idle" => req[q].send \in SendOf(minted))
        BY DEF OffersInv, Fits
      <3>2. \A i \in 1 .. minted : offers'[i] = Nil \/ (offers[i] # Nil /\ offers'[i].research = offers[i].research)
        BY <1>2, <1>4
      <3>3. Fits(req[q], offers', minted)
        BY <1>2, <3>1, <3>2, ForgettingFits
      <3> QED BY <1>1, <1>6, <2>2, <3>3
    <2> QED BY <2>1, <2>2
  <1> DEFINE s == Cardinality(Searching)
             t == Cardinality(Searching')
             a == Cardinality(Admits)
             b == Cardinality(Admits')
             all == Cardinality(Requests)
  <1>8. /\ Searching \in SUBSET Requests /\ Admits \in SUBSET Requests
        /\ Searching' = Searching \ {r} /\ Admits' = Admits \ {r}
    BY <1>6, IdleFits, IdleAlwaysFits DEF Searching, Admits
  <1>9. /\ s \in Nat /\ a \in Nat /\ all \in Nat
        /\ IF l.search THEN t = s - 1 ELSE t = s
        /\ IF Admitted(l) THEN b = a - 1 ELSE b = a
    <2>1. (r \in Searching <=> l.search) /\ (r \in Admits <=> Admitted(l))
      BY DEF Searching, Admits
    <2>2. IsFiniteSet(Searching) /\ IsFiniteSet(Admits) /\ s \in Nat /\ a \in Nat /\ all \in Nat
      BY <1>8, RequestsCounted
    <2>3. IF r \in Searching THEN t = s - 1 ELSE t = s
      BY <1>8, <2>2, FS_RemoveElement
    <2>4. IF r \in Admits THEN b = a - 1 ELSE b = a
      BY <1>8, <2>2, FS_RemoveElement
    <2> QED BY <2>1, <2>3, <2>4, <2>2
  <1>10. t \in Nat /\ b \in Nat
    BY <1>8, RequestsCounted
  <1>11. /\ searches - referenced + MaxUses * s <= SearchCap - 1 + all * MaxUses
         /\ files - dark + a <= GenCap - 1 + all
         /\ searches \in Nat /\ files \in Nat /\ dark \in Nat /\ referenced \in Nat
    BY DEF OffersInv, CountersInv
  <1> HIDE DEF s, t, a, b, all
  <1>12. searches' - referenced' + MaxUses * t <= SearchCap - 1 + all * MaxUses
    <2>1. CASE l.search
      <3>1. MaxUses * s = MaxUses * t + MaxUses /\ MaxUses * t \in Int /\ MaxUses * s \in Int /\ all * MaxUses \in Int
        BY <1>2, <1>9, <1>10, <2>1
      <3>2. searches' = searches + n /\ referenced' = referenced /\ n \in Nat /\ n <= MaxUses
        BY <1>2, <1>3, <1>11, <2>1
      <3> QED BY <1>2, <1>11, <3>1, <3>2
    <2>2. CASE ~l.search
      <3>1. t = s /\ searches' - referenced' = searches - referenced
        BY <1>2, <1>3, <1>9, <1>11, <2>2
      <3> QED BY <1>11, <3>1
    <2> QED BY <2>1, <2>2
  <1>13. files' - dark' + b <= GenCap - 1 + all /\ files' \in Nat /\ dark' \in Nat
    <2>1. staged => l.armed
      BY <1>1, <1>3 DEF staged_by, Fits
    <2>2. staged /\ l.why # "dark" => Admitted(l)
      BY <1>1, <2>1 DEF Admitted
    <2>3. b <= a
      BY <1>9
    <2>4. CASE ~staged
      <3>1. files' = files /\ dark' = dark
        BY <1>3, <1>11, <2>4
      <3> QED BY <1>2, <1>9, <1>10, <1>11, <2>3, <3>1
    <2>5. CASE staged /\ l.why = "dark"
      <3>1. files' = files + 1 /\ dark' = dark + 1
        BY <1>3, <2>5
      <3> QED BY <1>2, <1>9, <1>10, <1>11, <2>3, <3>1
    <2>6. CASE staged /\ l.why # "dark"
      <3>1. files' = files + 1 /\ dark' = dark /\ b = a - 1
        BY <1>3, <1>9, <1>11, <2>2, <2>6
      <3> QED BY <1>2, <1>9, <1>10, <1>11, <3>1
    <2> QED BY <2>4, <2>5, <2>6
  <1>14. searches' \in Nat /\ referenced' \in Nat
    BY <1>2, <1>3, <1>11
  <1>15. CountersInv'
    BY <1>12, <1>13, <1>14 DEF CountersInv, t, b, all
  <1> QED BY <1>1, <1>5, <1>6, <1>7, <1>15 DEF OffersInv

-----------------------------------------------------------------------------
(* Every await of every send keeps the invariant.                              *)
LEMMA OffersStep == ASSUME OffersInv, [OffersNext]_offerStoreVars PROVE OffersInv'
  <1>1. CASE UNCHANGED offerStoreVars
    BY <1>1 DEF offerStoreVars, OffersInv, StoreInv, CountersInv, Searching, Admits, Fits, Asked
  <1>2. CASE OffersNext
    BY <1>2, OffersRestartKept, ExpireKept, SendKept, SearchGateKept, ArmAtCapKept, ArmByTapKept,
       QuestionForTapKept, TakeForReplyKept, DeclineKept, QuestionForReplyKept, ConfirmKept, FastPathKept,
       OfferKept, TeaserKept, PlainAnswerKept, LaneKept, FinishKept, FailSendKept DEF OffersNext
  <1> QED BY <1>1, <1>2

LEMMA OffersStart == ASSUME OffersInit PROVE OffersInv
  <1>1. req = [q \in Requests |-> Idle] /\ offers = [i \in Ids |-> Nil] /\ taken = [i \in Ids |-> 0]
        /\ minted = 0 /\ searches = 0 /\ files = 0 /\ referenced = 0 /\ dark = 0 /\ paid \in BOOLEAN
    BY DEF OffersInit
  <1>2. StoreInv
    BY <1>1, OffersAssumption DEF StoreInv
  <1>3. req \in [Requests -> Locals] /\ \A q \in Requests : Fits(req[q], offers, minted)
    BY <1>1, IdleFits, IdleAlwaysFits
  <1>4. Searching = {} /\ Admits = {}
    BY <1>1, IdleFits, IdleAlwaysFits DEF Searching, Admits
  <1>5. CountersInv
    <2>1. Cardinality(Requests) \in Nat /\ MaxUses \in Nat /\ SearchCap \in Nat \ {0} /\ GenCap \in Nat \ {0}
      BY OffersAssumption, FS_CardinalityType
    <2> DEFINE all == Cardinality(Requests)
    <2> HIDE DEF all
    <2>2. all * MaxUses \in Nat /\ MaxUses * 0 = 0 /\ all \in Nat
      BY <2>1 DEF all
    <2>3. 0 <= SearchCap - 1 + all * MaxUses /\ 0 <= GenCap - 1 + all
      BY <2>1, <2>2
    <2> QED BY <1>1, <1>4, <2>1, <2>2, <2>3, FS_EmptySet DEF CountersInv, all
  <1> QED BY <1>1, <1>2, <1>3, <1>5 DEF OffersInv

LEMMA OffersAreHonoured == OffersInv => OffersHonoured
  <1> SUFFICES ASSUME OffersInv PROVE OffersHonoured
    OBVIOUS
  <1>1. \A i \in Ids : taken[i] <= 1
    BY DEF OffersInv, StoreInv
  <1>2. ASSUME NEW r \in Requests
        PROVE  /\ req[r].declined => ~req[r].armed /\ req[r].teaser = Nil /\ req[r].pc # "intent"
               /\ req[r].offer # Nil /\ req[r].offer.research => req[r].search \/ req[r].stripped
               /\ req[r].armed => Decided(req[r])
    BY DEF OffersInv, Fits, Researched
  <1>3. DecisionRespected
    BY <1>1, <1>2 DEF DecisionRespected, Building, Decided
  <1>4. AskCarried
    BY <1>2 DEF AskCarried, Building, Decided
  <1> QED BY <1>3, <1>4 DEF OffersHonoured

LEMMA CountersAreBounded == OffersInv => CountersBounded
  <1> SUFFICES ASSUME OffersInv PROVE CountersBounded
    OBVIOUS
  <1> DEFINE B == {r \in Requests : Building(r) /\ req[r].why # "dark"}
  <1>1. B \subseteq Admits /\ Admits \in SUBSET Requests /\ B \in SUBSET Requests
    BY DEF Admits, Admitted, Building
  <1>2. Cardinality(B) <= Cardinality(Admits) /\ Cardinality(B) \in Nat /\ Cardinality(Admits) \in Nat
        /\ Cardinality(Requests) \in Nat
    BY <1>1, RequestsCounted, FS_Subset
  <1>3. /\ searches - referenced + MaxUses * Cardinality(Searching) <= SearchCap - 1 + Cardinality(Requests) * MaxUses
        /\ files - dark + Cardinality(Admits) <= GenCap - 1 + Cardinality(Requests)
        /\ files \in Nat /\ dark \in Nat
    BY DEF OffersInv, CountersInv
  <1>4. Searching = {r \in Requests : req[r].search}
    BY DEF Searching
  <1> HIDE DEF B
  <1>5. files - dark + Cardinality(B) <= GenCap - 1 + Cardinality(Requests)
    BY <1>2, <1>3, OffersAssumption
  <1> QED BY <1>3, <1>4, <1>5 DEF CountersBounded, B

(* However sends, replies and expiries interleave: an offer gets one reply, a   *)
(* no builds nothing, what is built was decided by the send or its reply, and  *)
(* what the ask was reaches the build.                                        *)
THEOREM WhatIsBuiltWasDecided == OffersSpec => []OffersHonoured
  BY OffersStart, OffersStep, OffersAreHonoured, PTL DEF OffersSpec

(* A month's builds, and its searches but for those of an interview reference    *)
(* that no gate ruled on, overshoot their caps by what was in flight.           *)
THEOREM MonthlyCountersAreBounded == OffersSpec => []CountersBounded
  BY OffersStart, OffersStep, CountersAreBounded, PTL DEF OffersSpec

-----------------------------------------------------------------------------
(* The judge's breaker.                                                      *)

JudgeSpec == JudgeInit /\ [][JudgeNext]_judgeVars

JudgeType ==
    /\ fails \in Nat /\ ticks \in Nat /\ slow \in Nat /\ asking \subseteq Turns
    /\ opened_at \in Nat \cup {Nothing}

(* While it is closed the breaker counts every slow call itself.  While it is  *)
(* open the slow calls and the ones still on their way are within the bound:   *)
(* no other is let in.  Once the cooldown is over the count begins again.      *)
BreakerCounts ==
    /\ opened_at = Nothing => slow = fails /\ slow <= Threshold
    /\ opened_at # Nothing =>
         /\ opened_at <= ticks /\ fails > Threshold
         /\ ticks - opened_at < Cooldown => slow + Cardinality(asking) <= Threshold + Cardinality(Turns)
         /\ ticks - opened_at >= Cooldown => slow = 0

JudgeInv == JudgeType /\ BreakerCounts

(* Turns on their way are finitely many, and at most all.                      *)
LEMMA AskingCounted ==
    ASSUME NEW S \in SUBSET Turns
    PROVE  /\ IsFiniteSet(S) /\ Cardinality(S) \in Nat /\ Cardinality(S) <= Cardinality(Turns)
           /\ Cardinality(Turns) \in Nat
  <1>1. IsFiniteSet(Turns) /\ Cardinality(Turns) \in Nat
    BY UpstreamAssumption, FS_CardinalityType
  <1>2. IsFiniteSet(S) /\ Cardinality(S) <= Cardinality(Turns)
    BY <1>1, FS_Subset
  <1> QED BY <1>1, <1>2, FS_CardinalityType

(* Every answer, failure and tick keeps the count.                             *)
LEMMA JudgeStep == JudgeInv /\ [JudgeNext]_judgeVars => JudgeInv'
  <1> SUFFICES ASSUME JudgeInv, [JudgeNext]_judgeVars PROVE JudgeInv'
    OBVIOUS
  <1> USE UpstreamAssumption
  <1>0. JudgeType /\ BreakerCounts
    BY DEF JudgeInv
  <1>a. /\ IsFiniteSet(asking) /\ Cardinality(asking) \in Nat /\ Cardinality(asking) <= Cardinality(Turns)
        /\ Cardinality(Turns) \in Nat
    BY <1>0, AskingCounted DEF JudgeType
  <1>1. CASE JudgeTick
    BY <1>0, <1>1, <1>a DEF JudgeTick, JudgeInv, JudgeType, BreakerCounts
  <1>2. ASSUME NEW t \in Turns, GuardedAsk(t) PROVE JudgeInv'
    BY <1>0, <1>2 DEF GuardedAsk, allow, JudgeInv, JudgeType, BreakerCounts
  <1>3. ASSUME NEW t \in Turns, JudgeAnswers(t) PROVE JudgeInv'
    BY <1>0, <1>3 DEF JudgeAnswers, JudgeInv, JudgeType, BreakerCounts
  <1>4. ASSUME NEW t \in Turns, JudgeFails(t) PROVE JudgeInv'
    <2>1. Cardinality(asking') = Cardinality(asking) - 1
      BY <1>4, <1>a, FS_RemoveElement DEF JudgeFails
    <2>2. JudgeType'
      BY <1>0, <1>4 DEF JudgeFails, opened_after_failure, JudgeType
    <2>3. BreakerCounts'
      BY <1>0, <1>4, <1>a, <2>1 DEF JudgeFails, opened_after_failure, JudgeType, BreakerCounts
    <2> QED BY <2>2, <2>3 DEF JudgeInv
  <1>5. CASE UNCHANGED judgeVars
    BY <1>0, <1>5 DEF judgeVars, JudgeInv, JudgeType, BreakerCounts
  <1> QED BY <1>1, <1>2, <1>3, <1>4, <1>5 DEF JudgeNext

(* However many turns had asked when the breaker opened, and however often it   *)
(* let them through again: an outage of the judge costs at most Threshold slow   *)
(* calls and one for each turn.                                                  *)
THEOREM OutageIsBounded == JudgeSpec => []OutageBounded
  <1>1. JudgeInit => JudgeInv
    BY UpstreamAssumption DEF JudgeInit, JudgeInv, JudgeType, BreakerCounts
  <1>2. JudgeInv => OutageBounded
    <2> SUFFICES ASSUME JudgeInv PROVE OutageBounded
      OBVIOUS
    <2>1. Cardinality(asking) \in Nat /\ Cardinality(Turns) \in Nat
      BY AskingCounted DEF JudgeInv, JudgeType
    <2> QED BY <2>1, UpstreamAssumption DEF JudgeInv, JudgeType, BreakerCounts, OutageBounded
  <1> QED BY <1>1, <1>2, JudgeStep, PTL DEF JudgeSpec
-----------------------------------------------------------------------------
(* The road of a model call.                                                 *)

RouteSpec == UpstreamInit /\ [][RouteNext]_routeVars

Providers == {"anthropic", "openrouter"}
Causes == {Nothing, "ok", "400", "401", "429", "500", "502", "timeout"}

RoutedCall ==
    [prov : Providers, test : BOOLEAN, build : BOOLEAN, carried : BOOLEAN, stream : BOOLEAN,
     at : {"route", "stream", "alert", "settle"}, via : Providers, key : {Nothing, "live", "test", "or"},
     tries : Nat, heard : Nat, from : SUBSET Providers, full : Nat,
     status : {Nothing, "ok", "error", "timeout"},
     cause : Causes]

RouteType ==
    /\ keys \subseteq {"live", "test", "or"}
    /\ adapters \in [CacheKeys -> {Nothing, "live", "test", "or"}]
    /\ asked \in Nat /\ told \in Nat
    /\ routed \in RoutedCall \cup {Nothing}

(* An adapter outlives the call that filled its place, and holds that place's   *)
(* own key, one that is configured.                                            *)
KeyOfPlace(c) == IF c = "anthropic" THEN "live" ELSE IF c = "anthropic@test" THEN "test" ELSE "or"
AdaptersRight == \A c \in CacheKeys : adapters[c] = Nothing \/ (adapters[c] = KeyOfPlace(c) /\ KeyOfPlace(c) \in keys)

CallKey(c) == c.key = Nothing \/ (c.key \in keys /\ c.key \in {KeyFor(c.via, c.test), KeyFor(c.prov, c.test)})

(* Where a call has been, by where it is: it falls back once, before anything    *)
(* was heard, and only a stream of its first provider is heard piece by piece.   *)
CallRoad(c) ==
    /\ c.via # c.prov => falls_back(c) /\ c.via = "openrouter" /\ c.tries \in 1 .. 2
    /\ c.via = c.prov => c.tries <= 1
    /\ c.at = "route" => c.tries = (IF c.via = c.prov THEN 0 ELSE 1)
    /\ c.at = "alert" => falls_back(c) /\ c.via = c.prov
    /\ c.at \in {"route", "alert"} => c.heard = 0 /\ c.full = 0
    /\ c.at = "stream" => c.stream /\ c.via = "anthropic" /\ c.full = c.heard
    /\ c.from \subseteq {c.via} /\ (c.at # "settle" /\ c.heard = 0 => c.from = {})

CallPaid(c) == c.at = "settle" /\ c.status = "ok" => c.full = c.heard \/ (c.stream /\ c.via = "openrouter")

CallInv(c) == CallKey(c) /\ CallRoad(c) /\ CallPaid(c)

CallSafe == routed # Nothing => CallInv(routed)

RouteInv ==
    /\ RouteType /\ AdaptersRight
    /\ CallSafe
    /\ PaidIsHeard

(* The adapter a call is served by holds the key of the call's own scope.        *)
LEMMA AdapterFound ==
    ASSUME RouteType, AdaptersRight, NEW prov \in Providers, NEW test \in BOOLEAN
    PROVE  /\ get_adapter(prov, test) \in {Nothing, KeyFor(prov, test)} \cap (keys \cup {Nothing})
           /\ get_adapter(prov, test) \in {Nothing, "live", "test", "or"}
  BY DEF RouteType, AdaptersRight, get_adapter, cache_key, CacheKeys, KeyFor, KeyOfPlace, Providers

(* Filling its place leaves every adapter with its place's key.                  *)
LEMMA AdapterCached ==
    ASSUME RouteType, AdaptersRight, NEW prov \in Providers, NEW test \in BOOLEAN,
           adapters' = Cached(prov, test), keys' = keys
    PROVE  /\ adapters' \in [CacheKeys -> {Nothing, "live", "test", "or"}]
           /\ AdaptersRight'
  <1>1. cache_key(prov, test) \in CacheKeys
    BY DEF cache_key, CacheKeys, Providers
  <1>2. KeyFor(prov, test) = KeyOfPlace(cache_key(prov, test))
    BY DEF cache_key, KeyFor, KeyOfPlace, Providers
  <1>3. /\ get_adapter(prov, test) \in {Nothing, KeyFor(prov, test)} \cap (keys \cup {Nothing})
        /\ get_adapter(prov, test) \in {Nothing, "live", "test", "or"}
    BY AdapterFound
  <1>4. adapters' = [adapters EXCEPT ![cache_key(prov, test)] = get_adapter(prov, test)]
    BY DEF Cached
  <1> QED BY <1>1, <1>2, <1>3, <1>4 DEF RouteType, AdaptersRight

(* What a step writes into a call is of the call's types.                         *)
LEMMA CallsTyped ==
    ASSUME NEW c \in RoutedCall
    PROVE  /\ \A e \in Causes : Failed(c, e) \in RoutedCall /\ [c EXCEPT !.at = "alert", !.cause = e] \in RoutedCall
           /\ \A k \in {Nothing, "live", "test", "or"} : [c EXCEPT !.key = k, !.tries = c.tries + 1] \in RoutedCall
           /\ [c EXCEPT !.at = "stream"] \in RoutedCall
           /\ [c EXCEPT !.full = @ + 1, !.heard = @ + 1, !.from = @ \cup {c.via}] \in RoutedCall
           /\ [c EXCEPT !.at = "route", !.via = "openrouter", !.tries = 1] \in RoutedCall
           /\ [c EXCEPT !.at = "settle", !.status = "ok", !.full = MaxChunks,
                        !.heard = IF c.stream THEN @ ELSE MaxChunks,
                        !.from = IF c.stream THEN @ ELSE {c.via}] \in RoutedCall
  <1> USE DEF RoutedCall, Causes, Providers
  <1>1. ASSUME NEW e \in Causes PROVE Failed(c, e) \in RoutedCall
    BY DEF Failed
  <1>2. ASSUME NEW e \in Causes PROVE [c EXCEPT !.at = "alert", !.cause = e] \in RoutedCall
    OBVIOUS
  <1>3. ASSUME NEW k \in {Nothing, "live", "test", "or"}
        PROVE  [c EXCEPT !.key = k, !.tries = c.tries + 1] \in RoutedCall
    <2>1. PICK n \in Nat : n = c.tries + 1
      OBVIOUS
    <2>2. [c EXCEPT !.key = k, !.tries = n] \in RoutedCall
      OBVIOUS
    <2> QED BY <2>1, <2>2
  <1>4. [c EXCEPT !.at = "stream"] \in RoutedCall
    OBVIOUS
  <1>5. [c EXCEPT !.full = @ + 1, !.heard = @ + 1, !.from = @ \cup {c.via}] \in RoutedCall
    <2>1. c.full + 1 \in Nat /\ c.heard + 1 \in Nat
      OBVIOUS
    <2>2. c.from \cup {c.via} \in SUBSET Providers
      <3> HIDE DEF Providers
      <3> QED OBVIOUS
    <2>3. \A n, m \in Nat, p \in SUBSET Providers : [c EXCEPT !.full = n, !.heard = m, !.from = p] \in RoutedCall
      OBVIOUS
    <2> HIDE DEF RoutedCall
    <2> QED BY <2>1, <2>2, <2>3
  <1>6. [c EXCEPT !.at = "route", !.via = "openrouter", !.tries = 1] \in RoutedCall
    OBVIOUS
  <1>7. [c EXCEPT !.at = "settle", !.status = "ok", !.full = MaxChunks,
                  !.heard = IF c.stream THEN @ ELSE MaxChunks,
                  !.from = IF c.stream THEN @ ELSE {c.via}] \in RoutedCall
    BY UpstreamAssumption
  <1> HIDE DEF RoutedCall, Causes, Providers
  <1> QED BY <1>1, <1>2, <1>3, <1>4, <1>5, <1>6, <1>7

(* A call that fails is where it was, and owes nothing.                           *)
LEMMA FailedSafe ==
    ASSUME NEW c \in RoutedCall, CallInv(c), NEW e
    PROVE  CallInv(Failed(c, e))
  BY DEF RoutedCall, Failed, CallInv, CallKey, CallRoad, CallPaid, falls_back

(* Every step of a call keeps its road.                                          *)
LEMMA RouteStep == RouteInv /\ [RouteNext]_routeVars => RouteInv'
  <1> SUFFICES ASSUME RouteInv, [RouteNext]_routeVars PROVE RouteInv'
    OBVIOUS
  <1> USE UpstreamAssumption
  <1>0. RouteType /\ AdaptersRight /\ PaidIsHeard /\ (routed # Nothing => CallInv(routed) /\ routed \in RoutedCall)
    BY DEF RouteInv, RouteType, CallSafe
  <1>a. ASSUME keys' = keys, adapters' = adapters PROVE AdaptersRight'
    BY <1>0, <1>a DEF AdaptersRight
  <1>b. ASSUME row' = row PROVE PaidIsHeard'
    BY <1>0, <1>b DEF PaidIsHeard
  <1>1. CASE AskRouter
    <2>1. UNCHANGED <<keys, adapters>> /\ row' = Nothing
      BY <1>1 DEF AskRouter
    <2>2. RouteType' /\ CallSafe'
      <3>1. PICK prov \in {"anthropic", "openrouter"}, test, build, carried, stream \in BOOLEAN :
              /\ build => ~stream
              /\ routed' = [prov |-> prov, test |-> test, build |-> build, carried |-> carried, stream |-> stream,
                            at |-> "route", via |-> prov, key |-> Nothing, tries |-> 0, heard |-> 0, from |-> {},
                            full |-> 0, status |-> Nothing, cause |-> Nothing]
        BY <1>1, Zenon DEF AskRouter
      <3>2. routed' \in RoutedCall
        BY <3>1 DEF RoutedCall, Causes, Providers
      <3>3. CallSafe'
        BY <3>1 DEF CallSafe, CallInv, CallKey, CallRoad, CallPaid
      <3> QED BY <1>0, <1>1, <3>2, <3>3 DEF AskRouter, RouteType
    <2>3. PaidIsHeard'
      BY <2>1 DEF PaidIsHeard
    <2> QED BY <1>a, <2>1, <2>2, <2>3 DEF RouteInv
  <1>2. CASE Invalid
    <2>1. UNCHANGED <<keys, adapters, asked, told, row>> /\ routed' = Failed(routed, "400") /\ routed # Nothing
      BY <1>2 DEF Invalid
    <2>2. RouteType'
      BY <1>0, <2>1, CallsTyped DEF RouteType, Causes
    <2>3. CallSafe'
      BY <1>0, <2>1, FailedSafe DEF CallSafe, CallInv, CallKey
    <2> QED BY <1>a, <1>b, <2>1, <2>2, <2>3 DEF RouteInv
  <1>3. CASE NoAdapter
    <2>1. /\ UNCHANGED <<keys, adapters, asked, told, row>> /\ routed # Nothing /\ routed.at = "route"
          /\ \/ routed' = Failed(routed, "502")
             \/ falls_back(routed) /\ routed.tries = 0 /\ routed' = [routed EXCEPT !.at = "alert", !.cause = "502"]
      BY <1>3 DEF NoAdapter
    <2>2. RouteType'
      <3>1. "502" \in Causes
        BY DEF Causes
      <3>2. routed' \in RoutedCall
        <4>1. routed \in RoutedCall
          BY <1>0, <2>1
        <4>2. Failed(routed, "502") \in RoutedCall /\ [routed EXCEPT !.at = "alert", !.cause = "502"] \in RoutedCall
          BY <3>1, <4>1, CallsTyped
        <4> QED BY <2>1, <4>2
      <3> QED BY <1>0, <2>1, <3>2 DEF RouteType
    <2>3. CallSafe'
      <3>1. CASE routed' = Failed(routed, "502")
        BY <1>0, <2>1, <3>1, FailedSafe DEF CallSafe, CallInv, CallKey
      <3>2. CASE falls_back(routed) /\ routed.tries = 0 /\ routed' = [routed EXCEPT !.at = "alert", !.cause = "502"]
        BY <1>0, <2>1, <3>2 DEF RoutedCall, CallSafe, CallInv, CallKey, CallRoad, CallPaid, falls_back
      <3> QED BY <2>1, <3>1, <3>2
    <2> QED BY <1>a, <1>b, <2>1, <2>2, <2>3 DEF RouteInv
  <1>4. CASE Route
    <2>0. /\ UNCHANGED <<keys, asked, told, row>> /\ routed # Nothing /\ routed.at = "route" /\ Whole
          /\ adapters' = Cached(routed.via, routed.test) /\ routed.via \in Providers /\ routed.test \in BOOLEAN
      BY <1>0, <1>4 DEF Route, RoutedCall
    <2> DEFINE key == get_adapter(routed.via, routed.test)
    <2>1. key \in {Nothing, "live", "test", "or"} /\ (key = Nothing \/ (key \in keys /\ key = KeyFor(routed.via, routed.test)))
      BY <1>0, <2>0, AdapterFound
    <2>2. adapters' \in [CacheKeys -> {Nothing, "live", "test", "or"}] /\ AdaptersRight'
      BY <1>0, <2>0, AdapterCached
    <2>3. PICK answer \in {"ok", "400", "401", "429", "500", "timeout"} :
            \/ /\ answer = "ok"
               /\ routed' = [SentUpstream EXCEPT !.at = "settle", !.status = "ok", !.full = MaxChunks,
                                !.heard = IF routed.stream THEN @ ELSE MaxChunks,
                                !.from = IF routed.stream THEN @ ELSE {routed.via}]
            \/ falls_back(routed) /\ routed.tries = 0 /\ routed' = [SentUpstream EXCEPT !.at = "alert", !.cause = answer]
            \/ routed' = Failed(SentUpstream, answer)
      BY <1>4 DEF Route
    <2> HIDE DEF key
    <2>4. SentUpstream = [routed EXCEPT !.key = key, !.tries = routed.tries + 1]
      BY DEF SentUpstream, key
    <2>5. routed' \in RoutedCall
      <3>1. SentUpstream \in RoutedCall /\ SentUpstream.stream = routed.stream /\ SentUpstream.via = routed.via
        <4>1. SentUpstream \in RoutedCall
          BY <1>0, <2>0, <2>1, <2>4, CallsTyped
        <4>2. SentUpstream.stream = routed.stream /\ SentUpstream.via = routed.via
          BY <1>0, <2>0, <2>4 DEF RoutedCall
        <4> QED BY <4>1, <4>2
      <3>2. answer \in Causes
        BY DEF Causes
      <3> QED BY <2>3, <3>1, <3>2, CallsTyped
    <2>6. CallSafe'
      <3>1. CASE routed' = [SentUpstream EXCEPT !.at = "settle", !.status = "ok", !.full = MaxChunks,
                                !.heard = IF routed.stream THEN @ ELSE MaxChunks,
                                !.from = IF routed.stream THEN @ ELSE {routed.via}]
        BY <1>0, <2>0, <2>1, <2>4, <3>1
        DEF RoutedCall, Providers, Whole, CallSafe, CallInv, CallKey, CallRoad, CallPaid, falls_back
      <3>2. CASE falls_back(routed) /\ routed.tries = 0 /\ routed' = [SentUpstream EXCEPT !.at = "alert", !.cause = answer]
        BY <1>0, <2>0, <2>1, <2>4, <3>2
        DEF RoutedCall, Providers, CallSafe, CallInv, CallKey, CallRoad, CallPaid, falls_back
      <3>3. CASE routed' = Failed(SentUpstream, answer)
        BY <1>0, <2>0, <2>1, <2>4, <3>3
        DEF RoutedCall, Providers, Failed, CallSafe, CallInv, CallKey, CallRoad, CallPaid, falls_back
      <3> QED BY <2>3, <3>1, <3>2, <3>3
    <2> QED BY <1>0, <1>b, <2>0, <2>2, <2>5, <2>6 DEF RouteInv, RouteType
  <1>5. CASE Open
    <2>0. /\ UNCHANGED <<keys, asked, told, row>> /\ routed # Nothing /\ routed.at = "route" /\ ~Whole
          /\ adapters' = Cached(routed.via, routed.test) /\ routed.via \in Providers /\ routed.test \in BOOLEAN
      BY <1>0, <1>5 DEF Open, RoutedCall
    <2> DEFINE key == get_adapter(routed.via, routed.test)
    <2>1. key \in {Nothing, "live", "test", "or"} /\ (key = Nothing \/ (key \in keys /\ key = KeyFor(routed.via, routed.test)))
      BY <1>0, <2>0, AdapterFound
    <2>2. adapters' \in [CacheKeys -> {Nothing, "live", "test", "or"}] /\ AdaptersRight'
      BY <1>0, <2>0, AdapterCached
    <2>3. routed' = [[routed EXCEPT !.key = key, !.tries = routed.tries + 1] EXCEPT !.at = "stream"]
      BY <1>5 DEF Open, SentUpstream
    <2> HIDE DEF key
    <2>5. routed' \in RoutedCall
      BY <1>0, <2>0, <2>1, <2>3, CallsTyped
    <2>6. CallSafe'
      BY <1>0, <2>0, <2>1, <2>3 DEF RoutedCall, Providers, Whole, CallSafe, CallInv, CallKey, CallRoad, CallPaid, falls_back
    <2> QED BY <1>0, <1>b, <2>0, <2>2, <2>5, <2>6 DEF RouteInv, RouteType
  <1>6. CASE Chunk
    <2>1. /\ UNCHANGED <<keys, adapters, asked, told, row>> /\ routed # Nothing /\ routed.at = "stream"
          /\ routed' = [routed EXCEPT !.full = @ + 1, !.heard = @ + 1, !.from = @ \cup {routed.via}]
      BY <1>6 DEF Chunk
    <2>2. RouteType'
      BY <1>0, <2>1, CallsTyped DEF RouteType
    <2>3. CallSafe'
      BY <1>0, <2>1 DEF RoutedCall, CallSafe, CallInv, CallKey, CallRoad, CallPaid, falls_back
    <2> QED BY <1>a, <1>b, <2>1, <2>2, <2>3 DEF RouteInv
  <1>7. CASE StreamEnds
    <2>1. /\ UNCHANGED <<keys, adapters, asked, told, row>> /\ routed # Nothing /\ routed.at = "stream"
          /\ routed' = [routed EXCEPT !.at = "settle", !.status = "ok"]
      BY <1>7 DEF StreamEnds
    <2>2. RouteType'
      BY <1>0, <2>1 DEF RouteType, RoutedCall
    <2>3. CallSafe'
      BY <1>0, <2>1 DEF RoutedCall, CallSafe, CallInv, CallKey, CallRoad, CallPaid, falls_back
    <2> QED BY <1>a, <1>b, <2>1, <2>2, <2>3 DEF RouteInv
  <1>8. CASE StreamFails
    <2>1. UNCHANGED <<keys, adapters, asked, told, row>> /\ routed # Nothing /\ routed.at = "stream"
      BY <1>8 DEF StreamFails
    <2>2. PICK answer \in {"400", "401", "429", "500", "timeout"} :
            \/ routed.heard = 0 /\ falls_back(routed) /\ routed' = [routed EXCEPT !.at = "alert", !.cause = answer]
            \/ routed' = Failed(routed, answer)
      BY <1>8 DEF StreamFails, before_first_event
    <2>3. RouteType'
      <3>1. answer \in Causes
        BY DEF Causes
      <3>2. routed' \in RoutedCall
        <4>1. routed \in RoutedCall
          BY <1>0, <2>1
        <4>2. Failed(routed, answer) \in RoutedCall /\ [routed EXCEPT !.at = "alert", !.cause = answer] \in RoutedCall
          BY <3>1, <4>1, CallsTyped
        <4> QED BY <2>2, <4>2
      <3> QED BY <1>0, <2>1, <3>2 DEF RouteType
    <2>4. CallSafe'
      <3>1. CASE routed' = Failed(routed, answer)
        BY <1>0, <2>1, <3>1, FailedSafe DEF CallSafe, CallInv, CallKey
      <3>2. CASE routed.heard = 0 /\ falls_back(routed) /\ routed' = [routed EXCEPT !.at = "alert", !.cause = answer]
        BY <1>0, <2>1, <3>2 DEF RoutedCall, CallSafe, CallInv, CallKey, CallRoad, CallPaid, falls_back
      <3> QED BY <2>2, <3>1, <3>2
    <2> QED BY <1>a, <1>b, <2>1, <2>3, <2>4 DEF RouteInv
  <1>9. CASE WallClock
    <2>1. /\ UNCHANGED <<keys, adapters, asked, told, row>> /\ routed # Nothing
          /\ routed' = [routed EXCEPT !.at = "settle", !.status = "timeout"]
      BY <1>9 DEF WallClock
    <2>2. RouteType'
      BY <1>0, <2>1 DEF RouteType, RoutedCall
    <2>3. CallSafe'
      BY <1>0, <2>1 DEF RoutedCall, CallSafe, CallInv, CallKey, CallRoad, CallPaid, falls_back
    <2> QED BY <1>a, <1>b, <2>1, <2>2, <2>3 DEF RouteInv
  <1>10. CASE HangUp
    <2>1. UNCHANGED <<keys, adapters, asked, told, row>> /\ routed' = Nothing
      BY <1>10 DEF HangUp
    <2>2. RouteType'
      BY <1>0, <2>1 DEF RouteType
    <2> QED BY <1>a, <1>b, <2>1, <2>2 DEF RouteInv, CallSafe
  <1>11. CASE Alert
    <2>1. /\ UNCHANGED <<keys, adapters, asked, row>> /\ routed # Nothing /\ routed.at = "alert"
          /\ told' \in {told, told + 1}
          /\ routed' = [routed EXCEPT !.at = "route", !.via = "openrouter", !.tries = 1]
      BY <1>11 DEF Alert
    <2>2. RouteType'
      <3>1. routed' \in RoutedCall
        BY <1>0, <2>1, CallsTyped
      <3> QED BY <1>0, <2>1, <3>1 DEF RouteType
    <2>3. CallSafe'
      BY <1>0, <2>1 DEF RoutedCall, CallSafe, CallInv, CallKey, CallRoad, CallPaid, falls_back
    <2> QED BY <1>a, <1>b, <2>1, <2>2, <2>3 DEF RouteInv
  <1>12. CASE Settle
    <2>1. /\ UNCHANGED <<keys, adapters, asked, told>> /\ routed # Nothing /\ routed.at = "settle" /\ routed' = Nothing
          /\ row' = [status |-> routed.status, charged |-> (IF routed.status = "ok" THEN routed.full ELSE 0),
                     call |-> routed]
      BY <1>12 DEF Settle
    <2>2. RouteType'
      BY <1>0, <2>1 DEF RouteType
    <2>3. PaidIsHeard'
      BY <1>0, <2>1 DEF PaidIsHeard, CallInv, CallPaid
    <2> QED BY <1>a, <2>1, <2>2, <2>3 DEF RouteInv, CallSafe
  <1>13. CASE UNCHANGED routeVars
    <2>1. UNCHANGED <<keys, adapters, asked, told, row, routed>>
      BY <1>13 DEF routeVars
    <2>2. RouteType'
      BY <1>0, <2>1 DEF RouteType
    <2>3. CallSafe'
      BY <1>0, <2>1 DEF CallSafe, CallInv, CallKey, CallRoad, CallPaid, falls_back
    <2> QED BY <1>a, <1>b, <2>1, <2>2, <2>3 DEF RouteInv
  <1> QED BY <1>1, <1>2, <1>3, <1>4, <1>5, <1>6, <1>7, <1>8, <1>9, <1>10, <1>11, <1>12, <1>13 DEF RouteNext

(* The road invariant gives the three parts of RoadKept.                         *)
LEMMA RoadFollows == RouteInv => RoadKept
  <1> SUFFICES ASSUME RouteInv PROVE RoadKept
    OBVIOUS
  <1>1. KeyKept
    BY UpstreamAssumption
    DEF RouteInv, RouteType, RoutedCall, Providers, CallSafe, CallInv, CallKey, CallRoad, KeyKept, KeyFor, falls_back
  <1>2. OneRoad
    <2> SUFFICES ASSUME routed # Nothing
                 PROVE  /\ routed.via # routed.prov => falls_back(routed) /\ routed.from \subseteq {"openrouter"}
                        /\ routed.tries <= 2 /\ Cardinality(routed.from) <= 1
      BY DEF OneRoad
    <2>1. CallRoad(routed) /\ routed \in RoutedCall
      BY DEF RouteInv, RouteType, CallSafe, CallInv
    <2>2. routed.from = {} \/ routed.from = {routed.via}
      BY <2>1 DEF CallRoad
    <2>3. Cardinality(routed.from) \in {0, 1}
      BY <2>2, FS_EmptySet, FS_Singleton
    <2> QED BY <2>1, <2>3 DEF CallRoad, RoutedCall
  <1> QED BY <1>1, <1>2 DEF RouteInv, RoadKept

(* Whatever was called before and however it fails: a call spends on its own      *)
(* scope's key, falls back once at most and only where it may, every text event   *)
(* of its answer is from one provider, and what is charged is what was sent,      *)
(* except where a stream is answered whole.                                       *)
THEOREM RoadIsKept == RouteSpec => []RoadKept
  <1>1. UpstreamInit => RouteInv
    BY DEF UpstreamInit, RouteInv, RouteType, AdaptersRight, CallSafe, PaidIsHeard
  <1> QED BY <1>1, RouteStep, RoadFollows, PTL DEF RouteSpec
-----------------------------------------------------------------------------
(* The gates                                                                 *)

GatesSpec == GatesInit /\ [][GatesNext]_gateVars

CallLocals ==
    [pc : {"idle", "policy", "checks", "latch", "budget", "run"}, session : ChatSessions \cup {Absent},
     case : Cases \cup {Absent}, entitled : {"free", "paid", "odd", Absent}, est : 0 .. MaxEstimate,
     flaw : {Absent, "form", "plan", "prompt", "model", "device"}, tasted : Nat, mine : BOOLEAN,
     saw : (Nat \X Nat) \cup {Absent}, search : BOOLEAN]

Spendings == [all : Nat, case : [Cases -> Nat], day : [1 .. Days -> Nat]]

GatesType ==
    /\ kind \in Kinds /\ day \in 1 .. Days /\ IsFiniteSet(taste) /\ spent \in Spendings /\ rows \in Nat
    /\ others \in [1 .. Days -> Nat] /\ ceiling \in {FlatCap, Absent} /\ call \in [Calls -> CallLocals]

(* A call that runs was admitted on a sum not above today's; as long as it is    *)
(* today's, there is room for its estimate under every cap of its kind.         *)
Roomy(l) ==
    /\ kind = "anonymous" =>
         /\ spent.all + Carried + l.est <= PerInstall
         /\ spent.case[l.case] + l.est <= PerApplication
         /\ spent.day[day] + l.est <= Daily
    /\ kind = "tr" => \E e \in DOMAIN TrCap : spent.all + l.est <= TrCap[e] + Tolerance
    /\ kind = "flat" /\ ~opened => spent.all + l.est <= FlatCap

CallFits(l) ==
    /\ l.pc # "idle" => l.case \in Cases /\ (l.search => kind = "tr")
    /\ l.pc = "policy" /\ l.mine => l.session \in taste /\ l.session # Absent
    /\ l.pc = "run" => /\ l.saw \in Nat \X Nat /\ l.saw[1] <= spent.all
                       /\ l.saw[1] = spent.all => Roomy(l)

(* What CapsHold says but for overlapping calls; no day to come has spent.      *)
CapsKept ==
    /\ \A d \in 1 .. Days : d > day => spent.day[d] = 0
    /\ kind = "anonymous" /\ ~raced =>
         /\ spent.all > 0 => spent.all + Carried <= PerInstall
         /\ \A c \in Cases : spent.case[c] <= PerApplication
         /\ \A d \in 1 .. Days : spent.day[d] <= Daily
    /\ kind = "tr" /\ ~raced => \E e \in DOMAIN TrCap : spent.all <= TrCap[e] + Tolerance + SearchFee
    /\ kind = "flat" /\ ~raced /\ ~opened => spent.all <= FlatCap
    /\ opened => ~reachable

(* The calls in flight all fit, or all but one, whose own estimate does: the    *)
(* one admitted last.                                                          *)
InstallBound == PerInstall + (Cardinality(Calls) - 1) * MaxEstimate
LastFits ==
    kind = "anonymous" =>
       \/ spent.all = 0 /\ InFlight = {}
       \/ spent.all + Carried + Cardinality(InFlight) * MaxEstimate <= InstallBound
       \/ \E q \in InFlight :
            spent.all + Carried + call[q].est + (Cardinality(InFlight) - 1) * MaxEstimate <= InstallBound

(* Calls past the hourly latch.                                                *)
Unlatched == {q \in Calls : call[q].pc \in {"budget", "run"}}

WindowsKept ==
    /\ kind = "free" => Cardinality(taste) <= TasteCap \/ tasteRaced
    /\ kind = "automation" => rows + Cardinality(Unlatched) <= HourlyCap - 1 + Cardinality(Calls)
    /\ ~active => kind = "automation"
    /\ "automation_hourly_cap" \in incidents => ~active

GatesInv ==
    /\ GatesType /\ (\A q \in Calls : CallFits(call[q]))
    /\ CapsKept /\ LastFits /\ WindowsKept

LEMMA Units ==
    /\ Rpm \in Nat /\ HourlyCap \in Nat \ {0} /\ TasteCap \in Nat \ {0} /\ FlatCap \in Nat /\ PerApplication \in Nat
    /\ PerInstall \in Nat /\ PerIp \in Nat /\ Daily \in Nat /\ Tolerance \in Nat /\ SearchFee \in Nat
    /\ Carried \in Nat /\ MaxEstimate \in Nat \ {0} /\ Days \in Nat \ {0} /\ FlatCap # Absent
    /\ TrCap \in [{"free", "paid"} -> Nat]
  BY GatesAssumption

LEMMA CallsCounted ==
    ASSUME NEW S \in SUBSET Calls
    PROVE  /\ IsFiniteSet(S) /\ Cardinality(S) \in Nat /\ Cardinality(S) <= Cardinality(Calls)
           /\ Cardinality(Calls) \in Nat
  <1>1. IsFiniteSet(Calls) /\ Cardinality(Calls) \in Nat
    BY GatesAssumption, FS_CardinalityType
  <1>2. IsFiniteSet(S) /\ Cardinality(S) <= Cardinality(Calls)
    BY <1>1, FS_Subset
  <1> QED BY <1>1, <1>2, FS_CardinalityType

LEMMA NoCallFits ==
    /\ NoCall \in CallLocals /\ NoCall.pc = "idle" /\ NoCall.mine = FALSE /\ NoCall.search = FALSE
    /\ NoCall.est = 0
  <1>1. PICK no \in BOOLEAN : no = FALSE
    OBVIOUS
  <1>2. NoCall = [pc |-> "idle", session |-> Absent, case |-> Absent, entitled |-> Absent, est |-> 0,
                  flaw |-> Absent, tasted |-> 0, mine |-> no, saw |-> Absent, search |-> no]
    BY <1>1 DEF NoCall
  <1>3. /\ NoCall \in CallLocals /\ NoCall.pc = "idle" /\ NoCall.mine = no /\ NoCall.search = no
        /\ NoCall.est = 0
    BY <1>2, Units DEF CallLocals
  <1> QED BY <1>1, <1>3

(* One call takes a step and spends nothing.  What it now has in hand fits; it    *)
(* is past the latch only if it was or if there was room, and nobody begins or    *)
(* ends running.                                                               *)
LEMMA OneCallMoves ==
    ASSUME GatesInv, NEW q \in Calls, NEW now \in CallLocals, call' = [call EXCEPT ![q] = now],
           UNCHANGED <<kind, day, spent, rows, others, ceiling, reachable, raced, opened>>,
           taste \subseteq taste', IsFiniteSet(taste'),
           CallFits(call[q])',
           call[q].pc # "run", now.pc # "run",
           now.pc = "budget" => call[q].pc = "budget" \/ rows < HourlyCap \/ kind # "automation"
    PROVE  /\ GatesType' /\ (\A p \in Calls : CallFits(call[p]))' /\ CapsKept' /\ LastFits'
           /\ kind = "automation" => rows + Cardinality(Unlatched') <= HourlyCap - 1 + Cardinality(Calls)
  <1>1. call' \in [Calls -> CallLocals] /\ call'[q] = now /\ \A p \in Calls : p # q => call'[p] = call[p]
    BY DEF GatesInv, GatesType
  <1>2. GatesType'
    BY <1>1 DEF GatesInv, GatesType
  <1>3. ASSUME NEW p \in Calls PROVE CallFits(call[p])'
    <2>1. CASE p = q
      BY <1>1, <2>1
    <2>2. CASE p # q
      <3>1. CallFits(call[p]) /\ call'[p] = call[p]
        BY <1>1, <2>2 DEF GatesInv
      <3> QED BY <3>1 DEF CallFits, Roomy
    <2> QED BY <2>1, <2>2
  <1>4. CapsKept'
    BY DEF GatesInv, CapsKept
  <1>5. InFlight' = InFlight /\ \A p \in InFlight : call'[p] = call[p]
    BY <1>1 DEF InFlight
  <1>6. LastFits'
    BY <1>5 DEF GatesInv, LastFits, InstallBound
  <1>7. Unlatched' \subseteq Unlatched \/ rows < HourlyCap \/ kind # "automation"
    BY <1>1 DEF Unlatched
  <1>8. ASSUME kind = "automation"
        PROVE  rows + Cardinality(Unlatched') <= HourlyCap - 1 + Cardinality(Calls)
    <2>1. Unlatched \in SUBSET Calls /\ Unlatched' \in SUBSET Calls
      BY DEF Unlatched
    <2>2. /\ Cardinality(Unlatched) \in Nat /\ Cardinality(Unlatched') \in Nat /\ Cardinality(Calls) \in Nat
          /\ Cardinality(Unlatched') <= Cardinality(Calls)
          /\ Unlatched' \subseteq Unlatched => Cardinality(Unlatched') <= Cardinality(Unlatched)
      BY <2>1, CallsCounted, FS_Subset
    <2>3. rows \in Nat /\ rows + Cardinality(Unlatched) <= HourlyCap - 1 + Cardinality(Calls)
      BY <1>8 DEF GatesInv, GatesType, WindowsKept
    <2> QED BY <1>7, <1>8, <2>2, <2>3, Units
  <1> QED BY <1>2, <1>3, <1>4, <1>6, <1>8

(* A call that is turned away leaves nothing behind.                            *)
LEMMA Refused ==
    ASSUME GatesInv, NEW q \in Calls, Refuse(q), call[q].pc # "run",
           UNCHANGED <<kind, day, spent, rows, others, ceiling, reachable, raced, opened, taste>>
    PROVE  /\ GatesType' /\ (\A p \in Calls : CallFits(call[p]))' /\ CapsKept' /\ LastFits'
           /\ kind = "automation" => rows + Cardinality(Unlatched') <= HourlyCap - 1 + Cardinality(Calls)
  <1>2. IsFiniteSet(taste) /\ call'[q] = NoCall
    BY DEF GatesInv, GatesType, Refuse
  <1>1. CallFits(call[q])'
    BY <1>2, NoCallFits DEF CallFits
  <1>3. NoCall \in CallLocals /\ NoCall.pc = "idle" /\ call' = [call EXCEPT ![q] = NoCall]
    BY NoCallFits DEF Refuse
  <1> QED BY <1>1, <1>2, <1>3, OneCallMoves

LEMMA ArriveKept == ASSUME GatesInv, NEW q \in Calls, Arrive(q) PROVE GatesInv'
  <1>1. PICK s \in ChatSessions, c \in Cases, e \in {"free", "paid", "odd"}, est \in 1 .. MaxEstimate, web \in BOOLEAN,
             flaw \in {Absent, "form", "plan", "prompt", "model", "device"} :
         /\ kind # "free" => s = CHOOSE x \in ChatSessions : TRUE
         /\ kind # "anonymous" => c = CHOOSE x \in Cases : TRUE
         /\ flaw # Absent => est = 1 /\ ~web /\ e = "free"
         /\ flaw = "form" => kind = "flat"
         /\ flaw \in {"prompt", "model"} => kind = "automation"
         /\ flaw = "plan" => kind = "tr"
         /\ flaw = "device" => kind = "flat"
         /\ kind # "tr" => e = "free" /\ ~web
         /\ kind \in {"free", "automation"} \/ e = "odd" \/ web => est = 1
         /\ call' = [call EXCEPT ![q] = [NoCall EXCEPT !.pc = "policy", !.session = s, !.case = c, !.entitled = e,
               !.est = est, !.flaw = flaw, !.search = web, !.tasted = Cardinality(taste),
               !.mine = (s # Absent /\ s \in taste)]]
    BY DEF Arrive
  <1>2. /\ UNCHANGED <<kind, day, bucket, taste, active, spent, rows, others, ceiling, reachable, incidents,
                       raced, tasteRaced, opened>>
        /\ call[q].pc = "idle"
    BY DEF Arrive
  <1>3. PICK m \in BOOLEAN : m = (s # Absent /\ s \in taste)
    <2>0. TRUE \in BOOLEAN /\ FALSE \in BOOLEAN
      OBVIOUS
    <2>1. CASE s # Absent /\ s \in taste
      BY <2>0, <2>1, Zenon
    <2>2. CASE ~(s # Absent /\ s \in taste)
      BY <2>0, <2>2, Zenon
    <2> QED BY <2>1, <2>2
  <1>4. PICK n \in Nat : n = Cardinality(taste)
    BY FS_CardinalityType DEF GatesInv, GatesType
  <1> DEFINE now == [NoCall EXCEPT !.pc = "policy", !.session = s, !.case = c, !.entitled = e,
                                   !.est = est, !.flaw = flaw, !.search = web, !.tasted = n, !.mine = m]
  <1>5. call' = [call EXCEPT ![q] = now]
    BY <1>1, <1>3, <1>4
  <1>6. now \in CallLocals
    <2>1. PICK x \in 0 .. MaxEstimate : x = est
      BY Units
    <2> DEFINE one == [NoCall EXCEPT !.pc = "policy", !.session = s, !.case = c, !.entitled = e]
               two == [one EXCEPT !.flaw = flaw]
               three == [two EXCEPT !.search = web, !.mine = m]
    <2>2. one \in CallLocals
      BY NoCallFits DEF CallLocals
    <2>3. now = [three EXCEPT !.est = x, !.tasted = n]
      BY <2>1, NoCallFits DEF CallLocals
    <2> HIDE DEF one
    <2>4. two \in CallLocals
      BY <2>2 DEF CallLocals
    <2> HIDE DEF two
    <2>5. three \in CallLocals
      BY <2>4 DEF CallLocals
    <2> HIDE DEF three
    <2>6. [three EXCEPT !.est = x, !.tasted = n] \in CallLocals
      BY <2>5 DEF CallLocals
    <2> QED BY <2>3, <2>6
  <1>7. now.pc = "policy" /\ now.session = s /\ now.case = c /\ now.search = web /\ now.mine = m
    BY NoCallFits DEF CallLocals
  <1> HIDE DEF now
  <1>8. web => kind = "tr"
    BY <1>1
  <1>9. CallFits(call[q])'
    <2>1. call'[q] = now
      BY <1>5 DEF GatesInv, GatesType
    <2> QED BY <1>2, <1>3, <1>7, <1>8, <2>1 DEF CallFits
  <1>10. IsFiniteSet(taste)
    BY DEF GatesInv, GatesType
  <1>11. /\ GatesType' /\ (\A p \in Calls : CallFits(call[p]))' /\ CapsKept' /\ LastFits'
         /\ kind = "automation" => rows + Cardinality(Unlatched') <= HourlyCap - 1 + Cardinality(Calls)
    BY <1>2, <1>5, <1>6, <1>7, <1>9, <1>10, OneCallMoves
  <1>12. WindowsKept'
    BY <1>2, <1>11 DEF GatesInv, WindowsKept
  <1> QED BY <1>11, <1>12 DEF GatesInv

LEMMA PolicyKept == ASSUME GatesInv, NEW q \in Calls, Policy(q) PROVE GatesInv'
  <1> DEFINE l == call[q]
             seat == IF l.session = Absent THEN "no-session" ELSE l.session
  <1>1. /\ l.pc = "policy"
        /\ UNCHANGED <<kind, day, bucket, active, spent, rows, others, ceiling, reachable, incidents, made,
                       raced, opened>>
    BY DEF Policy
  <1>2. l \in CallLocals /\ CallFits(l) /\ IsFiniteSet(taste)
    BY DEF GatesInv, GatesType
  <1>3. CASE resolve_project_chat_verdict(l) = "quota_exhausted"
    <2>1. Refuse(q) /\ UNCHANGED <<taste, tasteRaced>>
      BY <1>3 DEF Policy
    <2>2. /\ GatesType' /\ (\A p \in Calls : CallFits(call[p]))' /\ CapsKept' /\ LastFits'
          /\ kind = "automation" => rows + Cardinality(Unlatched') <= HourlyCap - 1 + Cardinality(Calls)
      BY <1>1, <2>1, Refused
    <2>3. WindowsKept'
      BY <1>1, <2>1, <2>2 DEF GatesInv, WindowsKept
    <2> QED BY <2>2, <2>3 DEF GatesInv
  <1>4. CASE resolve_project_chat_verdict(l) # "quota_exhausted"
    <2>1. /\ taste' = IF kind = "free" THEN taste \cup {seat} ELSE taste
          /\ tasteRaced' = (tasteRaced \/ (kind = "free" /\ Cardinality(taste) > l.tasted))
          /\ call' = [call EXCEPT ![q].pc = "checks", ![q].tasted = 0, ![q].mine = FALSE]
      BY <1>4 DEF Policy
    <2>2. PICK no \in BOOLEAN : no = FALSE
      OBVIOUS
    <2> DEFINE now == [l EXCEPT !.pc = "checks", !.tasted = 0, !.mine = no]
    <2>3. call' = [call EXCEPT ![q] = now]
      BY <2>1, <2>2
    <2>4. now \in CallLocals /\ now.pc = "checks" /\ now.case = l.case /\ now.search = l.search
      BY <1>2 DEF CallLocals
    <2> HIDE DEF now
    <2>5. CallFits(call[q])'
      <3>1. call'[q] = now
        BY <2>3 DEF GatesInv, GatesType
      <3> QED BY <1>1, <1>2, <2>4, <3>1 DEF CallFits
    <2>6. taste \subseteq taste' /\ IsFiniteSet(taste')
      BY <1>2, <2>1, FS_AddElement
    <2>7. /\ GatesType' /\ (\A p \in Calls : CallFits(call[p]))' /\ CapsKept' /\ LastFits'
          /\ kind = "automation" => rows + Cardinality(Unlatched') <= HourlyCap - 1 + Cardinality(Calls)
      BY <1>1, <2>3, <2>4, <2>5, <2>6, OneCallMoves
    <2>8. ASSUME kind = "free" PROVE Cardinality(taste') <= TasteCap \/ tasteRaced'
      <3>1. Cardinality(taste) <= TasteCap \/ tasteRaced
        BY <2>8 DEF GatesInv, WindowsKept
      <3>2. CASE l.mine
        <4>1. seat \in taste
          BY <1>1, <1>2, <3>2 DEF CallFits
        <4>2. taste' = taste
          BY <2>1, <4>1
        <4> QED BY <2>1, <3>1, <4>2
      <3>3. CASE ~l.mine
        <4>1. l.tasted < TasteCap
          BY <1>4, <2>8, <3>3 DEF resolve_project_chat_verdict
        <4>2. l.tasted \in Nat /\ Cardinality(taste) \in Nat
          BY <1>2, FS_CardinalityType DEF CallLocals
        <4>3. Cardinality(taste') <= Cardinality(taste) + 1
          <5> HIDE DEF seat
          <5>1. Cardinality(taste \cup {seat}) = IF seat \in taste THEN Cardinality(taste) ELSE Cardinality(taste) + 1
            BY <1>2, FS_AddElement
          <5> QED BY <2>1, <2>8, <4>2, <5>1
        <4>4. Cardinality(taste') \in Nat
          BY <2>6, FS_CardinalityType
        <4>5. Cardinality(taste) > l.tasted => tasteRaced'
          BY <2>1, <2>8
        <4> QED BY <4>1, <4>2, <4>3, <4>4, <4>5, Units
      <3> QED BY <3>2, <3>3
    <2>9. WindowsKept'
      BY <1>1, <2>7, <2>8 DEF GatesInv, WindowsKept
    <2> QED BY <2>7, <2>9 DEF GatesInv
  <1> QED BY <1>3, <1>4

LEMMA RequestRefusedKept == ASSUME GatesInv, NEW q \in Calls, RequestRefused(q) PROVE GatesInv'
  <1>1. /\ Refuse(q) /\ call[q].pc = "checks"
        /\ UNCHANGED <<kind, day, bucket, taste, active, spent, rows, others, ceiling, reachable, incidents, made,
                       raced, tasteRaced, opened>>
    BY DEF RequestRefused
  <1>2. /\ GatesType' /\ (\A p \in Calls : CallFits(call[p]))' /\ CapsKept' /\ LastFits'
        /\ kind = "automation" => rows + Cardinality(Unlatched') <= HourlyCap - 1 + Cardinality(Calls)
    BY <1>1, Refused
  <1>3. WindowsKept'
    BY <1>1, <1>2 DEF GatesInv, WindowsKept
  <1> QED BY <1>2, <1>3 DEF GatesInv

(* A call goes on to its next check.                                           *)
LEMMA Onwards ==
    ASSUME GatesInv, NEW q \in Calls, NEW to \in {"latch", "budget"}, call' = [call EXCEPT ![q].pc = to],
           UNCHANGED <<kind, day, spent, rows, others, ceiling, reachable, raced, opened, taste>>,
           call[q].pc \in {"checks", "latch"}, to = "budget" => rows < HourlyCap \/ kind # "automation"
    PROVE  /\ GatesType' /\ (\A p \in Calls : CallFits(call[p]))' /\ CapsKept' /\ LastFits'
           /\ kind = "automation" => rows + Cardinality(Unlatched') <= HourlyCap - 1 + Cardinality(Calls)
  <1> DEFINE l == call[q]
             now == [l EXCEPT !.pc = to]
  <1>1. l \in CallLocals /\ CallFits(l) /\ IsFiniteSet(taste) /\ call' = [call EXCEPT ![q] = now]
    BY DEF GatesInv, GatesType
  <1>2. now \in CallLocals /\ now.pc = to /\ now.case = l.case /\ now.search = l.search
    BY <1>1 DEF CallLocals
  <1> HIDE DEF now
  <1>3. CallFits(call[q])'
    <2>1. call'[q] = now
      BY <1>1 DEF GatesInv, GatesType
    <2> QED BY <1>1, <1>2, <2>1 DEF CallFits
  <1> QED BY <1>1, <1>2, <1>3, OneCallMoves

LEMMA RateLimitKept == ASSUME GatesInv, NEW q \in Calls, RateLimit(q) PROVE GatesInv'
  <1>1. /\ call[q].pc = "checks"
        /\ UNCHANGED <<kind, day, taste, active, spent, rows, others, ceiling, reachable, incidents, made,
                       raced, tasteRaced, opened>>
        /\ Refuse(q) \/ call' = [call EXCEPT ![q].pc = "latch"]
    BY DEF RateLimit
  <1>2. /\ GatesType' /\ (\A p \in Calls : CallFits(call[p]))' /\ CapsKept' /\ LastFits'
        /\ kind = "automation" => rows + Cardinality(Unlatched') <= HourlyCap - 1 + Cardinality(Calls)
    <2>1. CASE Refuse(q)
      BY <1>1, <2>1, Refused
    <2>2. CASE call' = [call EXCEPT ![q].pc = "latch"]
      BY <1>1, <2>2, Onwards
    <2> QED BY <1>1, <2>1, <2>2
  <1>3. WindowsKept'
    BY <1>1, <1>2 DEF GatesInv, WindowsKept
  <1> QED BY <1>2, <1>3 DEF GatesInv

LEMMA LatchKept == ASSUME GatesInv, NEW q \in Calls, Latch(q) PROVE GatesInv'
  <1>1. /\ call[q].pc = "latch"
        /\ UNCHANGED <<kind, day, bucket, taste, spent, rows, others, ceiling, reachable, made, raced, tasteRaced,
                       opened>>
    BY DEF Latch
  <1>2. CASE ~device_refused(call[q]) /\ kind = "automation" /\ rows >= HourlyCap
    <2>1. active' = FALSE /\ incidents' = incidents \cup {"automation_hourly_cap"} /\ Refuse(q)
      BY <1>2 DEF Latch, latch_off
    <2>2. /\ GatesType' /\ (\A p \in Calls : CallFits(call[p]))' /\ CapsKept' /\ LastFits'
          /\ kind = "automation" => rows + Cardinality(Unlatched') <= HourlyCap - 1 + Cardinality(Calls)
      BY <1>1, <2>1, Refused
    <2>3. WindowsKept'
      BY <1>1, <1>2, <2>1, <2>2 DEF GatesInv, WindowsKept
    <2> QED BY <2>2, <2>3 DEF GatesInv
  <1>3. CASE ~(~device_refused(call[q]) /\ kind = "automation" /\ rows >= HourlyCap)
    <2>1. /\ UNCHANGED <<active, incidents>>
          /\ Refuse(q) \/ (call' = [call EXCEPT ![q].pc = "budget"] /\ (kind # "automation" \/ ~(rows >= HourlyCap)))
      BY <1>3 DEF Latch
    <2>2. rows \in Nat
      BY DEF GatesInv, GatesType
    <2>3. /\ GatesType' /\ (\A p \in Calls : CallFits(call[p]))' /\ CapsKept' /\ LastFits'
          /\ kind = "automation" => rows + Cardinality(Unlatched') <= HourlyCap - 1 + Cardinality(Calls)
      <3>1. CASE Refuse(q)
        BY <1>1, <3>1, Refused
      <3>2. CASE call' = [call EXCEPT ![q].pc = "budget"] /\ (kind # "automation" \/ ~(rows >= HourlyCap))
        <4>1. rows < HourlyCap \/ kind # "automation"
          BY <2>2, <3>2, Units
        <4> QED BY <1>1, <3>2, <4>1, Onwards
      <3> QED BY <2>1, <3>1, <3>2
    <2>4. WindowsKept'
      BY <1>1, <2>1, <2>3 DEF GatesInv, WindowsKept
    <2> QED BY <2>3, <2>4 DEF GatesInv
  <1> QED BY <1>2, <1>3

(* The cap of an entitlement is one of the declared caps, whoever declared it.  *)
LEMMA CapDeclared == ASSUME NEW e PROVE \E x \in DOMAIN TrCap : cap_for_entitlement(e) = TrCap[x]
  <1>1. CASE e \in DOMAIN TrCap
    BY <1>1 DEF cap_for_entitlement
  <1>2. CASE e \notin DOMAIN TrCap
    <2>1. DOMAIN TrCap = {"free", "paid"} /\ TrCap["free"] \in Nat /\ TrCap["paid"] \in Nat
      BY Units
    <2>2. \E m \in {TrCap[x] : x \in DOMAIN TrCap} : \A y \in {TrCap[x] : x \in DOMAIN TrCap} : m <= y
      BY <2>1
    <2>3. Min({TrCap[x] : x \in DOMAIN TrCap}) \in {TrCap[x] : x \in DOMAIN TrCap}
      BY <2>2 DEF Min
    <2> QED BY <1>2, <2>3 DEF cap_for_entitlement
  <1> QED BY <1>1, <1>2

(* What the budget gate let through has room under the caps of its kind.        *)
LEMMA NotBlocked ==
    ASSUME GatesInv, NEW l \in CallLocals, l.case \in Cases, ~Blocked(l)
    PROVE  /\ kind # "flat" \/ ceiling # Absent => Roomy(l)
           /\ kind = "flat" /\ ceiling = Absent => ~reachable
  <1>1. /\ spent.all \in Nat /\ spent.case[l.case] \in Nat /\ spent.day[day] \in Nat /\ others[day] \in Nat
        /\ l.est \in Nat /\ ceiling \in {FlatCap, Absent}
    BY Units DEF GatesInv, GatesType, Spendings, CallLocals
  <1>2. ASSUME kind = "anonymous"
        PROVE  /\ spent.all + Carried + l.est <= PerInstall
               /\ spent.case[l.case] + l.est <= PerApplication
               /\ spent.day[day] + l.est <= Daily
    <2>1. anonymous_check(l) = Absent
      BY <1>2 DEF Blocked
    <2>2. Absent # "application" /\ Absent # "install" /\ Absent # "daily"
      BY GatesAssumption
    <2> QED BY <1>1, <2>1, <2>2, Units
            DEF anonymous_check, over, application_spend, install_spend, lifetime_spend, daily_spend
  <1>3. ASSUME kind = "tr" PROVE \E e \in DOMAIN TrCap : spent.all + l.est <= TrCap[e] + Tolerance
    <2>1. PICK x \in DOMAIN TrCap : cap_for_entitlement(l.entitled) = TrCap[x]
      BY CapDeclared
    <2>2. ~(spent.all + l.est > TrCap[x] + Tolerance)
      BY <1>3, <2>1 DEF Blocked, would_exceed_tr_budget, lifetime_spend
    <2>3. TrCap[x] \in Nat
      BY Units
    <2> QED BY <1>1, <2>2, <2>3, Units
  <1>4. ASSUME kind = "flat", ceiling # Absent PROVE spent.all + l.est <= FlatCap
    BY <1>1, <1>4, Units DEF Blocked, over, lifetime_spend
  <1>5. kind = "flat" /\ ceiling = Absent => ~reachable
    BY DEF Blocked, uncapped
  <1> QED BY <1>2, <1>3, <1>4, <1>5 DEF Roomy

LEMMA BudgetKept == ASSUME GatesInv, NEW q \in Calls, Budget(q) PROVE GatesInv'
  <1> DEFINE l == call[q]
  <1>1. /\ l.pc = "budget"
        /\ UNCHANGED <<kind, day, bucket, taste, active, spent, rows, others, ceiling, reachable, made,
                       raced, tasteRaced>>
        /\ incidents' = incidents \cup Reported(l)
    BY DEF Budget
  <1>2. "automation_hourly_cap" \in incidents' => "automation_hourly_cap" \in incidents
    BY <1>1 DEF Reported
  <1>3. l \in CallLocals /\ CallFits(l) /\ l.case \in Cases
    BY <1>1 DEF GatesInv, GatesType, CallFits
  <1>4. CASE Blocked(l)
    <2>1. Refuse(q) /\ UNCHANGED opened
      BY <1>4 DEF Budget
    <2>2. /\ GatesType' /\ (\A p \in Calls : CallFits(call[p]))' /\ CapsKept' /\ LastFits'
          /\ kind = "automation" => rows + Cardinality(Unlatched') <= HourlyCap - 1 + Cardinality(Calls)
      BY <1>1, <2>1, Refused
    <2>3. WindowsKept'
      BY <1>1, <1>2, <2>1, <2>2 DEF GatesInv, WindowsKept
    <2> QED BY <2>2, <2>3 DEF GatesInv
  <1>5. CASE ~Blocked(l)
    <2>1. /\ call' = [call EXCEPT ![q].pc = "run", ![q].saw = <<lifetime_spend, others[day]>>]
          /\ opened' = (opened \/ (kind = "flat" /\ ceiling = Absent))
      BY <1>5 DEF Budget
    <2>2. /\ kind # "flat" \/ ceiling # Absent => Roomy(l)
          /\ kind = "flat" /\ ceiling = Absent => ~reachable
      BY <1>3, <1>5, NotBlocked
    <2>3. PICK sum \in Nat, away \in Nat : sum = spent.all /\ away = others[day]
      BY DEF GatesInv, GatesType, Spendings
    <2> DEFINE now == [l EXCEPT !.pc = "run", !.saw = <<sum, away>>]
    <2>4. call' = [call EXCEPT ![q] = now]
      BY <2>1, <2>3 DEF lifetime_spend
    <2>5. /\ now \in CallLocals /\ now.pc = "run" /\ now.case = l.case /\ now.est = l.est /\ now.search = l.search
          /\ now.saw = <<sum, away>>
      BY <1>3 DEF CallLocals
    <2> HIDE DEF now
    <2>6. /\ call' \in [Calls -> CallLocals] /\ call'[q] = now
          /\ \A p \in Calls : p # q => call'[p] = call[p]
      BY <2>4, <2>5 DEF GatesInv, GatesType
    <2>7. GatesType'
      BY <1>1, <2>6 DEF GatesInv, GatesType
    <2>8. ASSUME NEW p \in Calls PROVE CallFits(call[p])'
      <3>1. CASE p = q
        <4>1. kind # "flat" \/ ceiling # Absent => Roomy(call[q])'
          BY <1>1, <2>1, <2>2, <2>5, <2>6 DEF Roomy
        <4>2. kind = "flat" /\ ceiling = Absent => Roomy(call[q])'
          BY <1>1, <2>1 DEF Roomy
        <4>3. now.saw \in Nat \X Nat /\ now.saw[1] = sum /\ sum <= spent.all
          BY <2>3, <2>5
        <4> QED BY <1>1, <1>3, <2>5, <2>6, <3>1, <4>1, <4>2, <4>3 DEF CallFits
      <3>2. CASE p # q
        <4>1. CallFits(call[p]) /\ call'[p] = call[p]
          BY <2>6, <3>2 DEF GatesInv
        <4>2. opened => opened'
          BY <2>1, Zenon
        <4>3. Roomy(call[p]) => Roomy(call[p])'
          BY <1>1, <4>1, <4>2 DEF Roomy
        <4> QED BY <1>1, <4>1, <4>3 DEF CallFits
      <3> QED BY <3>1, <3>2
    <2>9. CapsKept'
      BY <1>1, <2>1, <2>2 DEF GatesInv, CapsKept
    <2>10. LastFits'
      <3>1. InFlight' = InFlight \cup {q} /\ InFlight' \in SUBSET Calls
        BY <2>5, <2>6 DEF InFlight
      <3>2. Cardinality(InFlight') \in Nat /\ Cardinality(InFlight') <= Cardinality(Calls) /\ Cardinality(Calls) \in Nat
        BY <3>1, CallsCounted
      <3>3. ASSUME kind = "anonymous"
            PROVE  spent.all + Carried + l.est + (Cardinality(InFlight') - 1) * MaxEstimate <= InstallBound
        <4>1. spent.all + Carried + l.est <= PerInstall
          BY <2>2, <3>3 DEF Roomy
        <4>2. PICK k \in Nat, n \in Nat : k = Cardinality(InFlight') /\ n = Cardinality(Calls) /\ k <= n
          BY <3>2
        <4>3. (k - 1) * MaxEstimate <= (n - 1) * MaxEstimate
          <5>0. n - k \in Nat /\ n - 1 = (k - 1) + (n - k)
            BY <4>2
          <5>1. PICK j \in Nat : n - 1 = (k - 1) + j
            BY <5>0
          <5>2. (n - 1) * MaxEstimate = (k - 1) * MaxEstimate + j * MaxEstimate /\ j * MaxEstimate \in Nat
            BY <5>1, Units
          <5> QED BY <5>2, Units
        <4>4. /\ (k - 1) * MaxEstimate \in Int /\ (n - 1) * MaxEstimate \in Int
              /\ spent.all + Carried + l.est \in Int /\ PerInstall \in Int
          BY <1>3, <2>3, Units DEF CallLocals
        <4> HIDE DEF l
        <4> QED BY <4>1, <4>2, <4>3, <4>4 DEF InstallBound
      <3> QED BY <1>1, <2>5, <2>6, <3>1, <3>3 DEF LastFits, InstallBound
    <2>11. Unlatched' = Unlatched
      BY <1>1, <2>5, <2>6 DEF Unlatched
    <2>12. WindowsKept'
      BY <1>1, <1>2, <2>11 DEF GatesInv, WindowsKept
    <2> QED BY <2>7, <2>8, <2>9, <2>10, <2>12 DEF GatesInv
  <1> QED BY <1>4, <1>5

LEMMA OthersSpendKept == ASSUME GatesInv, OthersSpend PROVE GatesInv'
  <1>1. /\ UNCHANGED <<kind, day, bucket, taste, active, spent, rows, ceiling, reachable, incidents, call, made,
                       raced, tasteRaced, opened>>
        /\ others' = [others EXCEPT ![day] = @ + 1]
    BY DEF OthersSpend
  <1>2. GatesType'
    BY <1>1 DEF GatesInv, GatesType
  <1>3. (\A p \in Calls : CallFits(call[p]))'
    BY <1>1 DEF GatesInv, CallFits, Roomy
  <1>4. CapsKept' /\ LastFits' /\ WindowsKept'
    BY <1>1 DEF GatesInv, CapsKept, LastFits, InFlight, InstallBound, WindowsKept, Unlatched
  <1> QED BY <1>2, <1>3, <1>4 DEF GatesInv

LEMMA EditCeilingKept == ASSUME GatesInv, EditCeiling PROVE GatesInv'
  <1>1. /\ UNCHANGED <<kind, day, bucket, taste, active, spent, rows, others, reachable, incidents, call, made,
                       raced, tasteRaced, opened>>
        /\ ceiling' \in {FlatCap, Absent}
    BY DEF EditCeiling
  <1>2. GatesType'
    BY <1>1 DEF GatesInv, GatesType
  <1>3. (\A p \in Calls : CallFits(call[p]))'
    BY <1>1 DEF GatesInv, CallFits, Roomy
  <1>4. CapsKept' /\ LastFits' /\ WindowsKept'
    BY <1>1 DEF GatesInv, CapsKept, LastFits, InFlight, InstallBound, WindowsKept, Unlatched
  <1> QED BY <1>2, <1>3, <1>4 DEF GatesInv

LEMMA ClearLatchKept == ASSUME GatesInv, ClearLatch PROVE GatesInv'
  <1>1. /\ UNCHANGED <<kind, day, bucket, taste, spent, others, ceiling, reachable, call, made, raced, tasteRaced,
                       opened>>
        /\ active' = TRUE /\ rows' \in {0, rows} /\ incidents' = incidents \ {"automation_hourly_cap"}
    BY DEF ClearLatch
  <1>2. GatesType' /\ rows' \in Nat /\ rows \in Nat /\ rows' <= rows
    BY <1>1 DEF GatesInv, GatesType
  <1>3. (\A p \in Calls : CallFits(call[p]))'
    BY <1>1 DEF GatesInv, CallFits, Roomy
  <1>4. CapsKept' /\ LastFits'
    BY <1>1 DEF GatesInv, CapsKept, LastFits, InFlight, InstallBound
  <1>5. WindowsKept'
    <2>1. Unlatched \in SUBSET Calls /\ Unlatched' = Unlatched
      BY <1>1 DEF Unlatched
    <2>2. Cardinality(Unlatched) \in Nat /\ Cardinality(Calls) \in Nat
      BY <2>1, CallsCounted
    <2>3. kind = "automation" => rows' + Cardinality(Unlatched) <= HourlyCap - 1 + Cardinality(Calls)
      BY <1>2, <2>2, Units DEF GatesInv, WindowsKept
    <2> QED BY <1>1, <2>1, <2>3 DEF GatesInv, WindowsKept
  <1> QED BY <1>2, <1>3, <1>4, <1>5 DEF GatesInv

LEMMA MinuteKept == ASSUME GatesInv, Minute PROVE GatesInv'
  <1>1. /\ UNCHANGED <<kind, taste, active, spent, rows, others, ceiling, reachable, incidents, call, made,
                       raced, tasteRaced, opened>>
        /\ day' \in {day} \cup ({day + 1} \cap 1 .. Days)
    BY DEF Minute
  <1>2. day \in 1 .. Days /\ day' \in 1 .. Days /\ (day' = day \/ day' > day) /\ spent \in Spendings
    BY <1>1, Units DEF GatesInv, GatesType
  <1>3. GatesType'
    BY <1>1, <1>2 DEF GatesInv, GatesType
  <1>4. ASSUME NEW p \in Calls PROVE CallFits(call[p])'
    <2>1. CallFits(call[p]) /\ call[p] \in CallLocals
      BY DEF GatesInv, GatesType
    <2>2. ASSUME Roomy(call[p]) PROVE Roomy(call[p])'
      <3>1. ASSUME kind = "anonymous", day' > day PROVE spent.day[day'] + call[p].est <= Daily
        <4>1. spent.day[day'] = 0 /\ spent.day[day] \in Nat /\ call[p].est \in Nat
          BY <1>2, <2>1, <3>1, Units DEF GatesInv, CapsKept, Spendings, CallLocals
        <4>2. spent.day[day] + call[p].est <= Daily
          BY <2>2, <3>1 DEF Roomy
        <4> QED BY <4>1, <4>2, Units
      <3> QED BY <1>1, <1>2, <2>2, <3>1 DEF Roomy
    <2> QED BY <1>1, <2>1, <2>2 DEF CallFits
  <1>5. CapsKept'
    <2>1. \A d \in 1 .. Days : d > day' => d > day
      BY <1>2, Units
    <2> QED BY <1>1, <2>1 DEF GatesInv, CapsKept
  <1>6. LastFits' /\ WindowsKept'
    BY <1>1 DEF GatesInv, LastFits, InFlight, InstallBound, WindowsKept, Unlatched
  <1> QED BY <1>3, <1>4, <1>5, <1>6 DEF GatesInv

LEMMA LogUsageKept == ASSUME GatesInv, NEW q \in Calls, LogUsage(q) PROVE GatesInv'
  <1> DEFINE l == call[q]
  <1>1. /\ l.pc = "run" /\ rows' = rows + 1
        /\ raced' = (raced \/ l.saw # <<lifetime_spend, others[day]>>)
        /\ call' = [call EXCEPT ![q] = NoCall]
        /\ UNCHANGED <<kind, day, bucket, taste, active, others, ceiling, reachable, incidents, made,
                       tasteRaced, opened>>
    BY DEF LogUsage
  <1>2. PICK cost \in {0, l.est} :
             LET bill == cost + (IF l.search THEN SearchFee ELSE 0)
             IN  spent' = [all |-> spent.all + bill, case |-> [spent.case EXCEPT ![l.case] = @ + bill],
                           day |-> [spent.day EXCEPT ![day] = @ + bill]]
    BY DEF LogUsage
  <1>3. /\ l \in CallLocals /\ CallFits(l) /\ l.est \in 0 .. MaxEstimate /\ l.case \in Cases
        /\ l.search => kind = "tr"
    BY <1>1 DEF GatesInv, GatesType, CallFits, CallLocals
  <1>4. PICK bill \in Nat :
          /\ spent' = [all |-> spent.all + bill, case |-> [spent.case EXCEPT ![l.case] = @ + bill],
                       day |-> [spent.day EXCEPT ![day] = @ + bill]]
          /\ bill <= l.est + SearchFee /\ (kind # "tr" => bill <= l.est)
    <2>1. PICK b : b = cost + (IF l.search THEN SearchFee ELSE 0)
      OBVIOUS
    <2>2. b \in Nat /\ b <= l.est + SearchFee /\ (kind # "tr" => b <= l.est)
      BY <1>3, <2>1, Units
    <2> QED BY <1>2, <2>1, <2>2
  <1>5. PICK est \in Nat, sum \in Nat, c \in Cases : est = l.est /\ sum = spent.all /\ c = l.case /\ est <= MaxEstimate
    <2>1. l.est \in Nat /\ l.est <= MaxEstimate
      BY <1>3, Units
    <2>2. spent.all \in Nat
      BY DEF GatesInv, GatesType, Spendings
    <2> HIDE DEF l
    <2> QED BY <1>3, <2>1, <2>2
  <1>6. /\ spent \in Spendings /\ day \in 1 .. Days
        /\ spent.case \in [Cases -> Nat] /\ spent.day \in [1 .. Days -> Nat]
    BY DEF GatesInv, GatesType, Spendings
  <1>7. /\ spent' \in Spendings /\ spent'.all = sum + bill
        /\ spent'.case = [spent.case EXCEPT ![c] = @ + bill] /\ spent'.day = [spent.day EXCEPT ![day] = @ + bill]
    <2>1. ASSUME NEW S, NEW f \in [S -> Nat], NEW x \in S PROVE [f EXCEPT ![x] = @ + bill] \in [S -> Nat]
      <3>1. f[x] + bill \in Nat
        OBVIOUS
      <3> QED BY <3>1
    <2>2. /\ [spent.case EXCEPT ![c] = @ + bill] \in [Cases -> Nat]
          /\ [spent.day EXCEPT ![day] = @ + bill] \in [1 .. Days -> Nat]
      BY <1>6, <2>1
    <2> QED BY <1>4, <1>5, <2>2 DEF Spendings
  <1>8. /\ call' \in [Calls -> CallLocals] /\ call'[q] = NoCall
        /\ \A p \in Calls : p # q => call'[p] = call[p]
    BY <1>1, NoCallFits DEF GatesInv, GatesType
  <1>9. GatesType' /\ rows \in Nat
    BY <1>1, <1>7, <1>8 DEF GatesInv, GatesType
  <1>10. ASSUME NEW p \in Calls PROVE CallFits(call[p])'
    <2>1. CASE p = q
      BY <1>8, <2>1, NoCallFits DEF CallFits
    <2>2. CASE p # q
      <3>1. CallFits(call[p]) /\ call'[p] = call[p]
        BY <1>8, <2>2 DEF GatesInv
      <3>2. ASSUME call[p].pc = "run" PROVE call[p].saw[1] \in Nat /\ call[p].saw[1] <= sum
        BY <1>5, <3>1, <3>2 DEF CallFits
      <3>3. CASE bill = 0
        <4>1. spent'.all = spent.all /\ spent'.case = spent.case /\ spent'.day = spent.day
          BY <1>5, <1>6, <1>7, <3>3
        <4> QED BY <1>1, <3>1, <4>1 DEF CallFits, Roomy
      <3>4. CASE bill # 0
        <4>1. ASSUME call[p].pc = "run" PROVE call[p].saw[1] <= spent'.all /\ call[p].saw[1] # spent'.all
          BY <1>7, <3>2, <3>4, <4>1
        <4> QED BY <1>1, <3>1, <4>1 DEF CallFits
      <3> QED BY <3>3, <3>4
    <2> QED BY <2>1, <2>2
  <1>11. CapsKept'
    <2>1. ASSUME ~raced' PROVE ~raced /\ Roomy(l)
      <3>1. ~raced /\ l.saw = <<spent.all, others[day]>>
        BY <1>1, <2>1, Zenon DEF lifetime_spend
      <3> QED BY <1>1, <1>3, <3>1 DEF CallFits
    <2>2. \A d \in 1 .. Days : spent'.day[d] = IF d = day THEN spent.day[d] + bill ELSE spent.day[d]
      BY <1>6, <1>7
    <2>3. \A k \in Cases : spent'.case[k] = IF k = c THEN spent.case[k] + bill ELSE spent.case[k]
      BY <1>6, <1>7
    <2>4. \A d \in 1 .. Days : d > day => spent'.day[d] = 0
      BY <1>6, <2>2 DEF GatesInv, CapsKept
    <2>5. ASSUME kind = "anonymous", ~raced'
          PROVE  /\ spent'.all + Carried <= PerInstall
                 /\ \A k \in Cases : spent'.case[k] <= PerApplication
                 /\ \A d \in 1 .. Days : spent'.day[d] <= Daily
      <3>1. bill <= est /\ ~raced
        BY <1>4, <1>5, <2>1, <2>5
      <3>2. sum + Carried + est <= PerInstall /\ spent.case[c] + est <= PerApplication /\ spent.day[day] + est <= Daily
        BY <1>5, <2>1, <2>5 DEF Roomy
      <3>3. /\ \A k \in Cases : spent.case[k] <= PerApplication /\ spent.case[k] \in Nat
            /\ \A d \in 1 .. Days : spent.day[d] <= Daily /\ spent.day[d] \in Nat
        BY <1>6, <2>5, <3>1 DEF GatesInv, CapsKept
      <3>4. spent'.all + Carried <= PerInstall
        BY <1>7, <3>1, <3>2, Units
      <3>5. ASSUME NEW k \in Cases PROVE spent'.case[k] <= PerApplication
        BY <2>3, <3>1, <3>2, <3>3, Units
      <3>6. ASSUME NEW d \in 1 .. Days PROVE spent'.day[d] <= Daily
        <4>1. PICK x \in Nat : x = spent.day[d] /\ x <= Daily /\ (d = day => x + est <= Daily)
          BY <3>2, <3>3
        <4>2. spent'.day[d] = IF d = day THEN x + bill ELSE x
          BY <2>2, <4>1
        <4> QED BY <3>1, <4>1, <4>2, Units
      <3> QED BY <3>4, <3>5, <3>6
    <2>6. ASSUME kind = "tr", ~raced' PROVE \E e \in DOMAIN TrCap : spent'.all <= TrCap[e] + Tolerance + SearchFee
      <3>1. PICK e \in DOMAIN TrCap : sum + est <= TrCap[e] + Tolerance
        BY <1>5, <2>1, <2>6 DEF Roomy
      <3>2. TrCap[e] \in Nat
        BY Units
      <3> QED BY <1>4, <1>5, <1>7, <3>1, <3>2, Units
    <2>7. ASSUME kind = "flat", ~raced', ~opened PROVE spent'.all <= FlatCap
      <3>1. sum + est <= FlatCap /\ bill <= est
        BY <1>4, <1>5, <2>1, <2>7 DEF Roomy
      <3> QED BY <1>7, <3>1, Units
    <2>8. opened' => ~reachable'
      BY <1>1 DEF GatesInv, CapsKept
    <2> QED BY <1>1, <2>4, <2>5, <2>6, <2>7, <2>8 DEF CapsKept
  <1>12. LastFits'
    <2>1. q \in InFlight /\ InFlight' = InFlight \ {q} /\ InFlight \in SUBSET Calls
      BY <1>1, <1>8, NoCallFits DEF InFlight
    <2>2. PICK k \in Nat : k = Cardinality(InFlight) /\ Cardinality(InFlight') = k - 1 /\ k - 1 \in Nat
      <3>1. IsFiniteSet(InFlight) /\ Cardinality(InFlight) \in Nat
        BY <2>1, CallsCounted
      <3>2. Cardinality(InFlight') = Cardinality(InFlight) - 1
        BY <2>1, <3>1, FS_RemoveElement
      <3>3. Cardinality(InFlight') \in Nat
        BY <2>1, CallsCounted
      <3> QED BY <3>1, <3>2, <3>3
    <2>3. PICK n \in Nat : n = Cardinality(Calls)
      BY <2>1, CallsCounted
    <2>4. PICK bound \in Int : bound = InstallBound
      <3>1. InstallBound \in Int
        BY <2>3, Units DEF InstallBound
      <3> QED BY <3>1
    <2>5. InstallBound' = InstallBound
      BY DEF InstallBound
    <2>6. PICK one \in Nat, rest \in Int : one = MaxEstimate /\ rest = (k - 1) * MaxEstimate
      BY <2>2, Units
    <2>7. k * MaxEstimate = rest + one
      BY <2>2, <2>6, Units
    <2>8. ASSUME kind = "anonymous"
          PROVE  \/ sum + Carried + rest + one <= bound
                 \/ \E p \in InFlight : sum + Carried + call[p].est + rest <= bound
      <3>1. \/ spent.all + Carried + k * MaxEstimate <= InstallBound
            \/ \E p \in InFlight : spent.all + Carried + call[p].est + (k - 1) * MaxEstimate <= InstallBound
        BY <2>1, <2>2, <2>8 DEF GatesInv, LastFits
      <3>2. CASE spent.all + Carried + k * MaxEstimate <= InstallBound
        BY <1>5, <2>4, <2>6, <2>7, <3>2, Units
      <3>3. CASE \E p \in InFlight : spent.all + Carried + call[p].est + (k - 1) * MaxEstimate <= InstallBound
        BY <1>5, <2>4, <2>6, <3>3
      <3> QED BY <3>1, <3>2, <3>3
    <2>9. ASSUME kind = "anonymous" PROVE bill <= est /\ est <= one
      BY <1>4, <1>5, <2>6, <2>9
    <2>10. ASSUME kind = "anonymous", sum + Carried + rest + one <= bound PROVE spent'.all + Carried + rest <= bound
      BY <1>7, <2>4, <2>6, <2>9, <2>10, Units
    <2>11. ASSUME kind = "anonymous", NEW p \in InFlight, sum + Carried + call[p].est + rest <= bound
           PROVE  \/ spent'.all + Carried + rest <= bound
                  \/ p \in InFlight' /\ spent'.all + Carried + call'[p].est + (k - 1 - 1) * MaxEstimate <= bound
      <3>1. CASE p = q
        BY <1>5, <1>7, <2>4, <2>6, <2>9, <2>11, <3>1, Units
      <3>2. CASE p # q
        <4>1. PICK mine \in Nat : mine = call[p].est
          BY <2>1, Units DEF GatesInv, GatesType, CallLocals
        <4>2. (k - 1 - 1) * MaxEstimate = rest - one
          BY <2>2, <2>6, Units
        <4>3. p \in InFlight' /\ call'[p].est = mine
          BY <1>8, <2>1, <3>2, <4>1
        <4>4. sum + bill + Carried + mine + (rest - one) <= bound
          BY <2>4, <2>6, <2>9, <2>11, <4>1, Units
        <4> QED BY <1>7, <4>2, <4>3, <4>4
      <3> QED BY <3>1, <3>2
    <2>12. ASSUME kind = "anonymous"
           PROVE  \/ spent'.all + Carried + rest <= bound
                  \/ \E p \in InFlight' : spent'.all + Carried + call'[p].est + (k - 1 - 1) * MaxEstimate <= bound
      BY <2>8, <2>10, <2>11, <2>12
    <2> QED BY <1>1, <2>2, <2>4, <2>5, <2>6, <2>12 DEF LastFits
  <1>13. WindowsKept'
    <2>1. /\ q \in Unlatched /\ Unlatched' = Unlatched \ {q} /\ Unlatched \in SUBSET Calls
          /\ Unlatched' \in SUBSET Calls
      BY <1>1, <1>8, NoCallFits DEF Unlatched
    <2>2. /\ Cardinality(Unlatched') = Cardinality(Unlatched) - 1 /\ Cardinality(Unlatched) \in Nat
          /\ Cardinality(Calls) \in Nat
      BY <2>1, CallsCounted, FS_RemoveElement
    <2>3. kind = "automation" => rows + Cardinality(Unlatched) <= HourlyCap - 1 + Cardinality(Calls)
      BY DEF GatesInv, WindowsKept
    <2>4. kind = "automation" => rows' + Cardinality(Unlatched') <= HourlyCap - 1 + Cardinality(Calls)
      BY <1>1, <1>9, <2>2, <2>3, Units
    <2> QED BY <1>1, <2>4 DEF GatesInv, WindowsKept
  <1> QED BY <1>9, <1>10, <1>11, <1>12, <1>13 DEF GatesInv

LEMMA GatesStart == GatesInit => GatesInv
  <1> SUFFICES ASSUME GatesInit PROVE GatesInv
    OBVIOUS
  <1>1. \A p \in Calls : call[p] = NoCall
    BY DEF GatesInit
  <1>2. GatesType
    <2>1. call \in [Calls -> CallLocals]
      BY NoCallFits DEF GatesInit
    <2>2. IsFiniteSet({})
      BY FS_EmptySet
    <2> QED BY <2>1, <2>2, Units DEF GatesInit, GatesType, Spendings
  <1>3. \A p \in Calls : CallFits(call[p])
    BY <1>1, NoCallFits DEF CallFits
  <1>4. CapsKept
    <2>1. spent.all = 0 /\ (\A c \in Cases : spent.case[c] = 0) /\ (\A d \in 1 .. Days : spent.day[d] = 0)
      BY DEF GatesInit
    <2>2. \E e \in DOMAIN TrCap : 0 <= TrCap[e] + Tolerance + SearchFee
      <3>1. "free" \in DOMAIN TrCap /\ TrCap["free"] \in Nat
        BY Units
      <3> QED BY <3>1, Units
    <2>3. opened = FALSE
      BY DEF GatesInit
    <2> QED BY <2>1, <2>2, <2>3, Units DEF CapsKept
  <1>5. LastFits
    <2>1. InFlight = {} /\ spent.all = 0
      BY <1>1, NoCallFits DEF InFlight, GatesInit
    <2> QED BY <2>1 DEF LastFits
  <1>6. WindowsKept
    <2>1. Unlatched = {}
      BY <1>1, NoCallFits DEF Unlatched
    <2>2. Cardinality(Unlatched) = 0 /\ Cardinality(taste) = 0 /\ Cardinality(Calls) \in Nat
      BY <2>1, FS_EmptySet, CallsCounted DEF GatesInit
    <2>3. rows = 0 /\ active = TRUE /\ incidents = {}
      BY DEF GatesInit
    <2> QED BY <2>2, <2>3, Units DEF WindowsKept
  <1> QED BY <1>2, <1>3, <1>4, <1>5, <1>6 DEF GatesInv

LEMMA GatesStep == GatesInv /\ [GatesNext]_gateVars => GatesInv'
  <1>1. ASSUME GatesInv, UNCHANGED gateVars PROVE GatesInv'
    BY <1>1 DEF gateVars, GatesInv, GatesType, CallFits, Roomy, CapsKept, LastFits, InFlight, InstallBound,
                WindowsKept, Unlatched
  <1> QED BY <1>1, OthersSpendKept, EditCeilingKept, ClearLatchKept, MinuteKept, ArriveKept, PolicyKept,
             RequestRefusedKept, RateLimitKept, LatchKept, BudgetKept, LogUsageKept DEF GatesNext

(* The invariant is strong enough: with calls in flight the install is within     *)
(* its cap and one estimate for each but the last, and so it is when they ended.  *)
LEMMA GatesMeaning == GatesInv => GatesHold
  <1> SUFFICES ASSUME GatesInv PROVE GatesHold
    OBVIOUS
  <1>1. InFlight \in SUBSET Calls /\ Unlatched \in SUBSET Calls /\ InFlight \subseteq Unlatched
    BY DEF InFlight, Unlatched
  <1>2. PICK k \in Nat, n \in Nat : k = Cardinality(InFlight) /\ n = Cardinality(Calls) /\ k <= n
    BY <1>1, CallsCounted
  <1>3. PICK u \in Nat : u = Cardinality(Unlatched)
    BY <1>1, CallsCounted
  <1>4. spent.all \in Nat /\ rows \in Nat
    BY DEF GatesInv, GatesType, Spendings
  <1>5. ASSUME kind = "anonymous", spent.all > 0
        PROVE  spent.all + Carried <= PerInstall + (n - 1) * MaxEstimate
    <2>1. PICK bound \in Int : bound = InstallBound /\ bound = PerInstall + (n - 1) * MaxEstimate
      <3>1. PerInstall + (n - 1) * MaxEstimate \in Int /\ InstallBound = PerInstall + (n - 1) * MaxEstimate
        BY <1>2, Units DEF InstallBound
      <3> QED BY <3>1
    <2>2. CASE spent.all + Carried + k * MaxEstimate <= bound
      <3>1. k * MaxEstimate \in Nat
        BY <1>2, Units
      <3> QED BY <1>4, <2>1, <2>2, <3>1, Units
    <2>3. CASE \E p \in InFlight : spent.all + Carried + call[p].est + (k - 1) * MaxEstimate <= bound
      <3>1. PICK p \in InFlight : spent.all + Carried + call[p].est + (k - 1) * MaxEstimate <= bound
        BY <2>3
      <3>2. k # 0
        BY <1>1, <1>2, CallsCounted, FS_EmptySet
      <3>3. (k - 1) * MaxEstimate \in Nat
        <4>1. k - 1 \in Nat
          BY <3>2
        <4> QED BY <4>1, Units
      <3>4. call[p].est \in Nat
        BY <1>1, Units DEF GatesInv, GatesType, CallLocals
      <3> QED BY <1>4, <2>1, <3>1, <3>3, <3>4, Units
    <2>4. ~(spent.all = 0)
      BY <1>4, <1>5
    <2> QED BY <1>2, <1>5, <2>1, <2>2, <2>3, <2>4 DEF GatesInv, LastFits
  <1>6. CapsHold
    BY <1>2, <1>5 DEF GatesInv, CapsKept, CapsHold, install_spend, lifetime_spend, application_spend
  <1>7. OncePerWindow
    <2>1. kind = "automation" => rows + u <= HourlyCap - 1 + n
      BY <1>2, <1>3 DEF GatesInv, WindowsKept
    <2>2. kind = "automation" => rows <= HourlyCap - 1 + n /\ rows < HourlyCap + n
      BY <1>2, <1>3, <1>4, <2>1, Units
    <2> QED BY <1>2, <2>2 DEF GatesInv, WindowsKept, OncePerWindow
  <1> QED BY <1>6, <1>7 DEF GatesHold

(* For every number of requests in flight, of applications and of days, and     *)
(* every cap, the gates of a chat request keep an app within its cap but for     *)
(* what overlapping calls were admitted on, and a free taste, an hourly latch    *)
(* and a missing ceiling to what they allow.                                    *)
THEOREM EveryAppWithinItsCap == GatesSpec => []GatesHold
  <1>1. GatesInit => GatesInv
    BY GatesStart
  <1>2. GatesInv /\ [GatesNext]_gateVars => GatesInv'
    BY GatesStep
  <1>3. GatesInv => GatesHold
    BY GatesMeaning
  <1> QED BY <1>1, <1>2, <1>3, PTL DEF GatesSpec

-----------------------------------------------------------------------------
(* The interviewer's turn: what the model may reply                            *)

FactNames == {"none", "ok", "unsaid", "digits", "misheard", "day", "partial", "inverted", "carried", "pushback",
              "idle", "outside", "battery", "closes", "restored"}
MarkNames == {"deferred_origin_unknown", "non_answer", "outside_options", "battery_unspoken", "unsupported",
              "checkpoint", "oath", "closing", "inversion"}
DeferNames == {"none", "applicant", "gap", "unknown", "resaid"}

Answers == [json : BOOLEAN, fact : [Fields -> FactNames], defer : [Fields -> DeferNames],
            asking : Fields \cup {NoField}, cp : BOOLEAN, confirms : BOOLEAN, over : BOOLEAN, closing : BOOLEAN,
            oath : 0 .. 2, wrong : BOOLEAN, shape : {"map", "string", "unreadable"}, early : BOOLEAN,
            size : 0 .. 2, answers : BOOLEAN, marks : SUBSET MarkNames]

(* Only dates are inverted, and an empty reply is not an envelope.               *)
Sound(d) ==
    /\ d \in Answers
    /\ d.fact["id"] # "inverted" /\ d.fact["opt"] # "inverted"
    /\ d.size = 0 => ~d.json

(* A set of numbers that is not empty has a least.                           *)
LEMMA LeastOf ==
    ASSUME NEW S \in SUBSET Nat, S # {}
    PROVE  \E n \in S : \A k \in S : n <= k
  <1>1. \E n \in S : \A k \in S : ~(<<k, n>> \in OpToRel(<, Nat))
    BY NatLessThanWellFounded, WFMin
  <1>2. PICK n \in S : \A k \in S : ~(<<k, n>> \in OpToRel(<, Nat))
    BY <1>1
  <1>3. ASSUME NEW k \in S, k < n PROVE FALSE
    <2>1. <<k, n>> \in Nat \X Nat /\ <<k, n>>[1] = k /\ <<k, n>>[2] = n
      OBVIOUS
    <2>2. <<k, n>> \in {ss \in Nat \X Nat : ss[1] < ss[2]}
      BY <1>3, <2>1
    <2> QED BY <1>2, <2>2 DEF OpToRel
  <1> QED BY <1>3

LEMMA CleanSound == Sound(Clean)
  <1>1. Clean.size = 2 /\ Clean.fact["id"] = "none" /\ Clean.fact["opt"] = "none"
    BY DEF Clean, Fields
  <1>2. Clean \in Answers
    BY DEF Clean, Answers, Fields, FactNames, DeferNames
  <1> QED BY <1>1, <1>2 DEF Sound

(* A reply with one field replaced.                                            *)
LEMMA FactReplaced ==
    ASSUME NEW d, Sound(d), NEW f \in Fields, NEW k \in FactKinds(f)
    PROVE  Sound([d EXCEPT !.fact = [d.fact EXCEPT ![f] = k]])
  <1>1. k \in FactNames /\ (k = "inverted" => f = "date")
    BY DEF FactKinds, FactNames, Fields
  <1>2. d \in Answers /\ d.fact \in [Fields -> FactNames]
    BY DEF Sound, Answers
  <1>3. PICK g : g = [d.fact EXCEPT ![f] = k]
    OBVIOUS
  <1>4. g \in [Fields -> FactNames] /\ g["id"] # "inverted" /\ g["opt"] # "inverted"
    BY <1>1, <1>2, <1>3 DEF Sound, Fields
  <1>5. PICK e : e = [d EXCEPT !.fact = g]
    OBVIOUS
  <1>6. e \in Answers /\ e.fact = g /\ e.size = d.size /\ e.json = d.json
    BY <1>2, <1>4, <1>5 DEF Answers
  <1> QED BY <1>3, <1>4, <1>5, <1>6 DEF Sound

LEMMA DeferReplaced ==
    ASSUME NEW d, Sound(d), NEW f \in Fields, NEW k \in DeferNames
    PROVE  Sound([d EXCEPT !.defer = [d.defer EXCEPT ![f] = k]])
  <1>2. d \in Answers /\ d.defer \in [Fields -> DeferNames]
    BY DEF Sound, Answers
  <1>3. PICK g : g = [d.defer EXCEPT ![f] = k]
    OBVIOUS
  <1>4. g \in [Fields -> DeferNames]
    BY <1>2, <1>3
  <1>5. PICK e : e = [d EXCEPT !.defer = g]
    OBVIOUS
  <1>6. e \in Answers /\ e.fact = d.fact /\ e.size = d.size /\ e.json = d.json
    BY <1>2, <1>4, <1>5 DEF Answers
  <1> QED BY <1>3, <1>4, <1>5, <1>6 DEF Sound

LEMMA Deviated ==
    ASSUME NEW d, Sound(d), NEW e \in Deviate(d)
    PROVE  Sound(e)
  <1> USE DEF Answers
  <1>1. CASE \E f \in Fields : \E k \in FactKinds(f) : e = [d EXCEPT !.fact = [d.fact EXCEPT ![f] = k]]
    BY <1>1, FactReplaced
  <1>3. CASE \E f \in Fields : e = [d EXCEPT !.asking = f]
    BY <1>3 DEF Sound
  <1>4. ASSUME \/ e = [d EXCEPT !.cp = TRUE]
               \/ e = [d EXCEPT !.cp = TRUE, !.confirms = TRUE]
               \/ e = [d EXCEPT !.over = TRUE]
               \/ e = [d EXCEPT !.closing = TRUE]
               \/ e = [d EXCEPT !.oath = 1]
               \/ e = [d EXCEPT !.oath = 2]
               \/ e = [d EXCEPT !.wrong = TRUE]
               \/ e = [d EXCEPT !.json = FALSE]
               \/ e = [d EXCEPT !.early = TRUE]
               \/ e = [d EXCEPT !.size = 1]
               \/ e = [d EXCEPT !.answers = FALSE]
               \/ e = [d EXCEPT !.json = FALSE, !.size = 0]
               \/ e = [d EXCEPT !.shape = "string"]
               \/ e = [d EXCEPT !.shape = "unreadable"]
        PROVE  Sound(e)
    <2>1. CASE e = [d EXCEPT !.cp = TRUE]
      BY <2>1 DEF Sound
    <2>2. CASE e = [d EXCEPT !.cp = TRUE, !.confirms = TRUE]
      BY <2>2 DEF Sound
    <2>3. CASE e = [d EXCEPT !.over = TRUE]
      BY <2>3 DEF Sound
    <2>4. CASE e = [d EXCEPT !.closing = TRUE]
      BY <2>4 DEF Sound
    <2>5. CASE e = [d EXCEPT !.oath = 1]
      BY <2>5 DEF Sound
    <2>6. CASE e = [d EXCEPT !.oath = 2]
      BY <2>6 DEF Sound
    <2>7. CASE e = [d EXCEPT !.wrong = TRUE]
      BY <2>7 DEF Sound
    <2>8. CASE e = [d EXCEPT !.json = FALSE]
      BY <2>8 DEF Sound
    <2>9. CASE e = [d EXCEPT !.early = TRUE]
      BY <2>9 DEF Sound
    <2>10. CASE e = [d EXCEPT !.size = 1]
      BY <2>10 DEF Sound
    <2>11. CASE e = [d EXCEPT !.answers = FALSE]
      BY <2>11 DEF Sound
    <2>12. CASE e = [d EXCEPT !.json = FALSE, !.size = 0]
      <3>1. PICK a : a = [d EXCEPT !.json = FALSE]
        OBVIOUS
      <3>2. a \in Answers /\ a.fact = d.fact /\ ~a.json
        BY <3>1 DEF Sound
      <3>3. PICK b : b = [a EXCEPT !.size = 0]
        OBVIOUS
      <3>4. b \in Answers /\ b.fact = d.fact /\ ~b.json
        BY <3>2, <3>3
      <3>5. e = b
        BY <2>12, <3>1, <3>3
      <3> QED BY <3>4, <3>5 DEF Sound
    <2>13. CASE e = [d EXCEPT !.shape = "string"]
      BY <2>13 DEF Sound
    <2>14. CASE e = [d EXCEPT !.shape = "unreadable"]
      BY <2>14 DEF Sound
    <2> QED BY <1>4, <2>1, <2>2, <2>3, <2>4, <2>5, <2>6, <2>7, <2>8, <2>9, <2>10, <2>11, <2>12, <2>13, <2>14
  <1> HIDE DEF Answers
  <1> DEFINE Single == {[d EXCEPT !.cp = TRUE],
                        [d EXCEPT !.cp = TRUE, !.confirms = TRUE],
                        [d EXCEPT !.over = TRUE],
                        [d EXCEPT !.closing = TRUE],
                        [d EXCEPT !.oath = 1],
                        [d EXCEPT !.oath = 2],
                        [d EXCEPT !.wrong = TRUE],
                        [d EXCEPT !.json = FALSE],
                        [d EXCEPT !.early = TRUE],
                        [d EXCEPT !.size = 1],
                        [d EXCEPT !.answers = FALSE],
                        [d EXCEPT !.json = FALSE, !.size = 0],
                        [d EXCEPT !.shape = "string"],
                        [d EXCEPT !.shape = "unreadable"]}
  <1>7. CASE e \in UNION {{[d EXCEPT !.fact = [d.fact EXCEPT ![f] = k]] : k \in FactKinds(f) \ {d.fact[f]}} : f \in Fields}
    BY <1>1, <1>7
  <1>8. CASE e \in {[d EXCEPT !.defer = [d.defer EXCEPT ![f] = k]] : f \in Fields, k \in {"applicant", "gap"}}
    <2>1. PICK f \in Fields, k \in {"applicant", "gap"} : e = [d EXCEPT !.defer = [d.defer EXCEPT ![f] = k]]
      BY <1>8
    <2>2. k \in DeferNames
      BY DEF DeferNames
    <2> QED BY <2>1, <2>2, DeferReplaced
  <1>9. CASE e \in {[d EXCEPT !.defer = [d.defer EXCEPT !["opt"] = k]] : k \in {"unknown", "resaid"}}
    <2>1. PICK k \in {"unknown", "resaid"} : e = [d EXCEPT !.defer = [d.defer EXCEPT !["opt"] = k]]
      BY <1>9
    <2>2. k \in DeferNames /\ "opt" \in Fields
      BY DEF DeferNames, Fields
    <2> QED BY <2>1, <2>2, DeferReplaced
  <1>10. CASE e \in {[d EXCEPT !.asking = f] : f \in Fields}
    BY <1>3, <1>10
  <1>11. CASE e \in Single
    BY <1>4, <1>11, Zenon
  <1> DEFINE Facts == UNION {{[d EXCEPT !.fact = [d.fact EXCEPT ![f] = k]] : k \in FactKinds(f) \ {d.fact[f]}} : f \in Fields}
             Defers == {[d EXCEPT !.defer = [d.defer EXCEPT ![f] = k]] : f \in Fields, k \in {"applicant", "gap"}}
             Opt == {[d EXCEPT !.defer = [d.defer EXCEPT !["opt"] = k]] : k \in {"unknown", "resaid"}}
             Asking == {[d EXCEPT !.asking = f] : f \in Fields}
  <1>12. Deviate(d) = Facts \cup Defers \cup Opt \cup Asking \cup Single
    BY DEF Deviate
  <1>13. Sound(e) \/ (e \notin Facts /\ e \notin Defers /\ e \notin Opt /\ e \notin Asking /\ e \notin Single)
    BY <1>7, <1>8, <1>9, <1>10, <1>11
  <1> HIDE DEF Facts, Defers, Opt, Asking, Single
  <1> QED BY <1>12, <1>13

(* The replies with one thing more wrong with them, n times over, exist.         *)
MoreWrong(n, f) == f = [k \in 0 .. n |-> IF k = 0 THEN {Clean} ELSE f[k - 1] \cup UNION {Deviate(d) : d \in f[k - 1]}]

LEMMA MoreWrongExists ==
    ASSUME NEW n \in Nat
    PROVE  \E f : MoreWrong(n, f)
  <1> DEFINE Missing == {m \in Nat : ~\E f : MoreWrong(m, f)}
  <1>1. SUFFICES ASSUME Missing # {} PROVE FALSE
    OBVIOUS
  <1>2. PICK m \in Missing : \A k \in Missing : m <= k
    <2>1. Missing \in SUBSET Nat
      OBVIOUS
    <2> HIDE DEF Missing
    <2> QED BY <1>1, <2>1, LeastOf
  <1>3. m # 0
    <2>1. MoreWrong(0, [k \in 0 .. 0 |-> {Clean}])
      BY DEF MoreWrong
    <2> QED BY <1>2, <2>1
  <1>4. m - 1 \in Nat /\ m - 1 \notin Missing
    BY <1>2, <1>3
  <1>5. PICK f : MoreWrong(m - 1, f)
    BY <1>4
  <1> DEFINE last == f[m - 1] \cup UNION {Deviate(d) : d \in f[m - 1]}
             g == [k \in 0 .. m |-> IF k = m THEN last ELSE f[k]]
  <1>6. \A k \in 0 .. m : g[k] = IF k = 0 THEN {Clean} ELSE g[k - 1] \cup UNION {Deviate(d) : d \in g[k - 1]}
    <2>1. \A k \in 0 .. m - 1 : f[k] = IF k = 0 THEN {Clean} ELSE f[k - 1] \cup UNION {Deviate(d) : d \in f[k - 1]}
      BY <1>5 DEF MoreWrong
    <2>2. ASSUME NEW k \in 0 .. m, k # m
          PROVE  g[k] = IF k = 0 THEN {Clean} ELSE g[k - 1] \cup UNION {Deviate(d) : d \in g[k - 1]}
      <3>1. k \in 0 .. m - 1 /\ (k # 0 => k - 1 \in 0 .. m /\ k - 1 # m)
        BY <1>4, <2>2
      <3>2. g[k] = f[k] /\ (k # 0 => g[k - 1] = f[k - 1])
        BY <2>2, <3>1
      <3> QED BY <2>1, <3>1, <3>2
    <2>3. g[m] = g[m - 1] \cup UNION {Deviate(d) : d \in g[m - 1]}
      <3>1. m \in 0 .. m /\ m - 1 \in 0 .. m /\ m - 1 # m
        BY <1>4
      <3>2. g[m] = last /\ g[m - 1] = f[m - 1]
        BY <3>1
      <3> QED BY <3>2
    <2> QED BY <1>3, <2>2, <2>3
  <1>7. MoreWrong(m, g)
    <2>1. g = [k \in 0 .. m |-> g[k]]
      OBVIOUS
    <2> HIDE DEF g
    <2> QED BY <1>6, <2>1 DEF MoreWrong
  <1> QED BY <1>2, <1>7

(* Whatever is wrong with a reply of the model, and however much.                *)
LEMMA RepliesSound ==
    ASSUME NEW n \in Nat, NEW d \in ModelReplies(n)
    PROVE  Sound(d)
  <1> DEFINE f == CHOOSE g : MoreWrong(n, g)
             Bad == {k \in 0 .. n : \E e \in f[k] : ~Sound(e)}
  <1>1. MoreWrong(n, f)
    <2>1. \E g : MoreWrong(n, g)
      BY MoreWrongExists
    <2> QED BY <2>1
  <1>2. d \in f[n]
    BY DEF ModelReplies, MoreWrong
  <1> HIDE DEF f
  <1>3. \A k \in 0 .. n : f[k] = IF k = 0 THEN {Clean} ELSE f[k - 1] \cup UNION {Deviate(e) : e \in f[k - 1]}
    BY <1>1 DEF MoreWrong
  <1>4. Bad = {}
    <2>1. SUFFICES ASSUME Bad # {} PROVE FALSE
      OBVIOUS
    <2>2. PICK m \in Bad : \A k \in Bad : m <= k
      <3>1. Bad \in SUBSET Nat
        OBVIOUS
      <3> HIDE DEF Bad
      <3> QED BY <2>1, <3>1, LeastOf
    <2>3. m \in 0 .. n
      OBVIOUS
    <2>4. PICK e \in f[m] : ~Sound(e)
      OBVIOUS
    <2>5. CASE m = 0
      <3>1. e = Clean
        BY <1>3, <2>3, <2>4, <2>5
      <3> QED BY <2>4, <3>1, CleanSound
    <2>6. CASE m # 0
      <3>1. m - 1 \in 0 .. n /\ ~(m <= m - 1)
        BY <2>3, <2>6
      <3>2. m - 1 \notin Bad
        <4> HIDE DEF Bad
        <4> QED BY <2>2, <3>1
      <3>3. \A b \in f[m - 1] : Sound(b)
        BY <3>1, <3>2
      <3>4. f[m] = f[m - 1] \cup UNION {Deviate(b) : b \in f[m - 1]}
        BY <1>3, <2>3, <2>6
      <3>5. e \in f[m - 1] \/ \E b \in f[m - 1] : e \in Deviate(b)
        BY <2>4, <3>4
      <3> QED BY <2>4, <3>3, <3>5, Deviated
    <2> QED BY <2>5, <2>6
  <1>5. n \in 0 .. n
    OBVIOUS
  <1> QED BY <1>2, <1>4, <1>5

-----------------------------------------------------------------------------
(* The interviewer's turn: what a repair leaves alone                          *)

Sentences == [call : Nat, at : Nat \cup {"reask", "next"}, oath : BOOLEAN, wrong : BOOLEAN]

Works == [r : Answers, text : Seq(Sentences), dropped : SUBSET Fields, lost : SUBSET Fields, pend : SUBSET Fields,
          answered : Fields \cup {NoField}, reask : Fields \cup {NoField}]

(* Two replies that differ in their facts, deferrals and marks, and two turns      *)
(* that differ in their replies and in the facts dropped.                         *)
Alike(a, b) ==
    /\ a.json = b.json /\ a.answers = b.answers /\ a.cp = b.cp /\ a.over = b.over
    /\ a.shape = b.shape /\ a.asking = b.asking /\ a.confirms = b.confirms
Beside(v, w) ==
    /\ v.text = w.text /\ v.lost = w.lost /\ v.pend = w.pend
    /\ v.answered = w.answered /\ v.reask = w.reask

LEMMA FactsSet ==
    ASSUME NEW w \in Works, NEW facts \in [Fields -> FactNames]
    PROVE  LET v == WithFacts(w, facts)
           IN  /\ v \in Works /\ Beside(v, w) /\ v.dropped = w.dropped /\ Alike(v.r, w.r)
               /\ v.r.fact = facts /\ v.r.defer = w.r.defer /\ v.r.marks = w.r.marks
  <1>1. PICK a : a = w.r
    OBVIOUS
  <1>2. a \in Answers
    BY <1>1 DEF Works
  <1>3. PICK b : b = [a EXCEPT !.fact = facts]
    OBVIOUS
  <1>4. /\ b \in Answers
        /\ Alike(b, a) /\ b.fact = facts /\ b.defer = a.defer /\ b.marks = a.marks
    BY <1>2, <1>3 DEF Answers, Alike
  <1>5. PICK v : v = [w EXCEPT !.r = b]
    OBVIOUS
  <1>6. v \in Works /\ Beside(v, w) /\ v.dropped = w.dropped /\ v.r = b
    BY <1>4, <1>5 DEF Works, Beside
  <1>7. v = WithFacts(w, facts)
    BY <1>1, <1>3, <1>5 DEF WithFacts
  <1> QED BY <1>1, <1>4, <1>6, <1>7

LEMMA DefersSet ==
    ASSUME NEW w \in Works, NEW defers \in [Fields -> DeferNames]
    PROVE  LET v == WithDefers(w, defers)
           IN  /\ v \in Works /\ Beside(v, w) /\ v.dropped = w.dropped /\ Alike(v.r, w.r)
               /\ v.r.fact = w.r.fact /\ v.r.defer = defers /\ v.r.marks = w.r.marks
  <1>1. PICK a : a = w.r
    OBVIOUS
  <1>2. a \in Answers
    BY <1>1 DEF Works
  <1>3. PICK b : b = [a EXCEPT !.defer = defers]
    OBVIOUS
  <1>4. /\ b \in Answers
        /\ Alike(b, a) /\ b.fact = a.fact /\ b.defer = defers /\ b.marks = a.marks
    BY <1>2, <1>3 DEF Answers, Alike
  <1>5. PICK v : v = [w EXCEPT !.r = b]
    OBVIOUS
  <1>6. v \in Works /\ Beside(v, w) /\ v.dropped = w.dropped /\ v.r = b
    BY <1>4, <1>5 DEF Works, Beside
  <1>7. v = WithDefers(w, defers)
    BY <1>1, <1>3, <1>5 DEF WithDefers
  <1> QED BY <1>1, <1>4, <1>6, <1>7

LEMMA Noted ==
    ASSUME NEW w \in Works, NEW on \in BOOLEAN, NEW mark \in MarkNames
    PROVE  LET v == Note(w, on, mark)
           IN  /\ v \in Works /\ Beside(v, w) /\ v.dropped = w.dropped /\ Alike(v.r, w.r)
               /\ v.r.fact = w.r.fact /\ v.r.defer = w.r.defer
               /\ w.r.marks \subseteq v.r.marks /\ (on => mark \in v.r.marks)
  <1>1. CASE ~on
    BY <1>1 DEF Note, Beside, Alike
  <1>2. CASE on
    <2>1. PICK a : a = w.r
      OBVIOUS
    <2>2. a \in Answers /\ a.marks \cup {mark} \in SUBSET MarkNames
      BY <2>1 DEF Works, Answers
    <2>3. PICK b : b = [a EXCEPT !.marks = a.marks \cup {mark}]
      OBVIOUS
    <2>4. /\ b \in Answers
          /\ Alike(b, a) /\ b.fact = a.fact /\ b.defer = a.defer /\ b.marks = a.marks \cup {mark}
      BY <2>2, <2>3 DEF Answers, Alike
    <2>5. PICK v : v = [w EXCEPT !.r = b]
      OBVIOUS
    <2>6. v \in Works /\ Beside(v, w) /\ v.dropped = w.dropped /\ v.r = b
      BY <2>4, <2>5 DEF Works, Beside
    <2>7. v = Note(w, on, mark)
      BY <1>2, <2>1, <2>3, <2>5 DEF Note
    <2> QED BY <2>1, <2>4, <2>6, <2>7
  <1> QED BY <1>1, <1>2

LEMMA Dropped ==
    ASSUME NEW w \in Works, NEW gone \in SUBSET Fields
    PROVE  LET v == Drop(w, gone)
           IN  /\ v \in Works /\ Beside(v, w) /\ v.dropped = w.dropped \cup gone /\ Alike(v.r, w.r)
               /\ v.r.defer = w.r.defer /\ v.r.marks = w.r.marks
               /\ \A f \in Fields : v.r.fact[f] = IF f \in gone THEN "none" ELSE w.r.fact[f]
  <1>1. PICK facts : facts = [f \in Fields |-> IF f \in gone THEN "none" ELSE w.r.fact[f]]
    OBVIOUS
  <1>2. w.r.fact \in [Fields -> FactNames]
    BY DEF Works, Answers
  <1>3. /\ facts \in [Fields -> FactNames]
        /\ \A f \in Fields : facts[f] = IF f \in gone THEN "none" ELSE w.r.fact[f]
    BY <1>1, <1>2 DEF FactNames
  <1>4. PICK u : u = WithFacts(w, facts)
    OBVIOUS
  <1>5. /\ u \in Works /\ Beside(u, w) /\ u.dropped = w.dropped /\ Alike(u.r, w.r)
        /\ u.r.fact = facts /\ u.r.defer = w.r.defer /\ u.r.marks = w.r.marks
    BY <1>3, <1>4, FactsSet
  <1>6. PICK v : v = [u EXCEPT !.dropped = w.dropped \cup gone]
    OBVIOUS
  <1>7. w.dropped \cup gone \in SUBSET Fields
    BY DEF Works
  <1>8. v \in Works /\ Beside(v, u) /\ v.dropped = w.dropped \cup gone /\ v.r = u.r
    BY <1>5, <1>6, <1>7 DEF Works, Beside
  <1>9. Beside(v, w)
    BY <1>5, <1>8 DEF Beside
  <1>10. v = Drop(w, gone)
    BY <1>1, <1>4, <1>6 DEF Drop
  <1> QED BY <1>3, <1>5, <1>8, <1>9, <1>10

-----------------------------------------------------------------------------
(* The interviewer's turn: what the repairs keep                               *)

(* The text of reply d, as call c gave it, with its identifier corrected.         *)
FirstText(d, c) == [i \in 1 .. d.size |-> corrected(Sentence(c, i, d), d)]

(* The text is the reply's, or none, or holds a sentence of the guard's; unless   *)
(* an identifier is asked for again or the reply cannot be read, only its last    *)
(* sentence may be another.                                                      *)
Words(d, c, w) ==
    /\ w.text = FirstText(d, c) \/ w.text = <<>> \/ \E i \in DOMAIN w.text : w.text[i].call = 0
    /\ w.reask = NoField /\ d.shape = "map" =>
         /\ Len(w.text) = d.size
         /\ \A i \in 1 .. d.size - 1 : w.text[i] = FirstText(d, c)[i]

(* A turn w under repair, for reply d: no fact is gone that is not on a list,      *)
(* and every fact is of a kind in K.                                             *)
Follows(d, w) ==
    /\ w \in Works
    /\ w.r.json = d.json /\ w.r.answers = d.answers
    /\ w.r.cp => d.cp
    /\ w.r.shape \in {d.shape, "map"}
Listed(d, w) == \A f \in Fields : d.fact[f] # "none" /\ w.r.fact[f] = "none" => f \in w.dropped \cup w.lost
Only(w, K) == \A f \in Fields : w.r.fact[f] \in K
At(d, c, w, K) == Follows(d, w) /\ Listed(d, w) /\ Only(w, K) /\ Words(d, c, w)

LEMMA FollowsOn ==
    ASSUME NEW d, NEW c, NEW w, Follows(d, w), Words(d, c, w),
           NEW v \in Works, Beside(v, w), Alike(v.r, w.r)
    PROVE  Follows(d, v) /\ Words(d, c, v) /\ v.lost = w.lost
  BY DEF Follows, Words, Beside, Alike

LEMMA WorksAt == ASSUME NEW d, NEW c, NEW K, NEW w, At(d, c, w, K) PROVE w \in Works
  BY DEF At, Follows

LEMMA AtNoted ==
    ASSUME NEW d, NEW c, NEW K, NEW w, At(d, c, w, K), NEW on \in BOOLEAN, NEW mark \in MarkNames
    PROVE  At(d, c, Note(w, on, mark), K)
  <1>1. PICK v : v = Note(w, on, mark)
    OBVIOUS
  <1>2. w \in Works
    BY DEF At, Follows
  <1>3. /\ v \in Works /\ Beside(v, w) /\ v.dropped = w.dropped /\ Alike(v.r, w.r)
        /\ v.r.fact = w.r.fact /\ v.r.defer = w.r.defer
        /\ w.r.marks \subseteq v.r.marks /\ (on => mark \in v.r.marks)
    BY <1>1, <1>2, Noted
  <1>4. Follows(d, v) /\ Words(d, c, v) /\ v.lost = w.lost
    BY <1>3, FollowsOn DEF At
  <1>5. Listed(d, v) /\ Only(v, K)
    BY <1>3, <1>4 DEF At, Listed, Only
  <1> QED BY <1>1, <1>3, <1>4, <1>5 DEF At

LEMMA AtDefers ==
    ASSUME NEW d, NEW c, NEW K, NEW w, At(d, c, w, K), NEW defers \in [Fields -> DeferNames]
    PROVE  At(d, c, WithDefers(w, defers), K)
  <1>1. PICK v : v = WithDefers(w, defers)
    OBVIOUS
  <1>2. w \in Works
    BY DEF At, Follows
  <1>3. /\ v \in Works /\ Beside(v, w) /\ v.dropped = w.dropped /\ Alike(v.r, w.r)
        /\ v.r.fact = w.r.fact /\ v.r.defer = defers /\ v.r.marks = w.r.marks
    BY <1>1, <1>2, DefersSet
  <1>4. Follows(d, v) /\ Words(d, c, v) /\ v.lost = w.lost
    BY <1>3, FollowsOn DEF At
  <1>5. Listed(d, v) /\ Only(v, K)
    BY <1>3, <1>4 DEF At, Listed, Only
  <1> QED BY <1>1, <1>3, <1>4, <1>5 DEF At

LEMMA AtDropped ==
    ASSUME NEW d, NEW c, NEW K, "none" \in K, NEW w, At(d, c, w, K), NEW gone \in SUBSET Fields
    PROVE  At(d, c, Drop(w, gone), K)
  <1>1. PICK v : v = Drop(w, gone)
    OBVIOUS
  <1>2. w \in Works
    BY DEF At, Follows
  <1>3. /\ v \in Works /\ Beside(v, w) /\ v.dropped = w.dropped \cup gone /\ Alike(v.r, w.r)
        /\ v.r.defer = w.r.defer /\ v.r.marks = w.r.marks
        /\ \A f \in Fields : v.r.fact[f] = IF f \in gone THEN "none" ELSE w.r.fact[f]
    BY <1>1, <1>2, Dropped
  <1>4. Follows(d, v) /\ Words(d, c, v) /\ v.lost = w.lost
    BY <1>3, FollowsOn DEF At
  <1>5. Listed(d, v) /\ Only(v, K)
    BY <1>3, <1>4 DEF At, Listed, Only
  <1> QED BY <1>1, <1>3, <1>4, <1>5 DEF At

LEMMA KindsAreFields == ASSUME NEW w, NEW B PROVE With(w, B) \in SUBSET Fields
  BY DEF With

(* Dropping the facts of some kinds leaves none of these kinds.                 *)
LEMMA AtWithout ==
    ASSUME NEW d, NEW c, NEW K, "none" \in K, NEW w, At(d, c, w, K), NEW B, "none" \notin B
    PROVE  At(d, c, Drop(w, With(w, B)), K \ B)
  <1>1. PICK gone : gone = With(w, B)
    OBVIOUS
  <1>2. gone \in SUBSET Fields
    BY <1>1 DEF With
  <1>3. PICK v : v = Drop(w, gone)
    OBVIOUS
  <1>4. /\ At(d, c, v, K)
        /\ \A f \in Fields : v.r.fact[f] = IF f \in gone THEN "none" ELSE w.r.fact[f]
    <2>1. At(d, c, v, K)
      BY <1>2, <1>3, AtDropped
    <2>2. w \in Works
      BY DEF At, Follows
    <2> QED BY <1>2, <1>3, <2>1, <2>2, Dropped
  <1>5. Only(v, K \ B)
    BY <1>1, <1>4 DEF At, Only, With
  <1>6. At(d, c, v, K \ B)
    BY <1>4, <1>5 DEF At
  <1> QED BY <1>1, <1>3, <1>4, <1>6

LEMMA AtFiled ==
    ASSUME NEW d, NEW c, NEW K, "ok" \in K, NEW w, At(d, c, w, K), NEW f \in Fields
    PROVE  At(d, c, File(w, f, "ok"), K) /\ File(w, f, "ok").lost = w.lost
  <1>1. PICK facts : facts = [w.r.fact EXCEPT ![f] = "ok"]
    OBVIOUS
  <1>2. w \in Works /\ w.r.fact \in [Fields -> FactNames]
    BY DEF At, Follows, Works, Answers
  <1>3. facts \in [Fields -> FactNames] /\ \A g \in Fields : facts[g] = IF g = f THEN "ok" ELSE w.r.fact[g]
    BY <1>1, <1>2 DEF FactNames
  <1>4. PICK v : v = WithFacts(w, facts)
    OBVIOUS
  <1>5. /\ v \in Works /\ Beside(v, w) /\ v.dropped = w.dropped /\ Alike(v.r, w.r)
        /\ v.r.fact = facts
    BY <1>2, <1>3, <1>4, FactsSet
  <1>6. Follows(d, v) /\ Words(d, c, v) /\ v.lost = w.lost
    BY <1>5, FollowsOn DEF At
  <1>7. Listed(d, v) /\ Only(v, K)
    BY <1>3, <1>5, <1>6 DEF At, Listed, Only
  <1> QED BY <1>1, <1>4, <1>6, <1>7 DEF At, File

-----------------------------------------------------------------------------
(* The interviewer's turn: the identifiers                                     *)

LEMMA FirstSentences ==
    ASSUME NEW d, Sound(d), NEW c \in Nat
    PROVE  /\ Text(c, d) \in Seq(Sentences) /\ Len(Text(c, d)) = d.size
           /\ FirstText(d, c) \in Seq(Sentences) /\ Len(FirstText(d, c)) = d.size
           /\ \A i \in 1 .. d.size : /\ Text(c, d)[i] = Sentence(c, i, d)
                                     /\ FirstText(d, c)[i] = corrected(Sentence(c, i, d), d)
           /\ \A i \in 1 .. d.size : (corrected(Sentence(c, i, d), d).oath <=> d.oath = i)
  <1>1. d.size \in Nat /\ d.wrong \in BOOLEAN
    BY DEF Sound, Answers
  <1>2. ASSUME NEW i \in 1 .. d.size
        PROVE  /\ Sentence(c, i, d) \in Sentences /\ corrected(Sentence(c, i, d), d) \in Sentences
               /\ (corrected(Sentence(c, i, d), d).oath <=> d.oath = i)
    <2>1. PICK o \in BOOLEAN : o = (d.oath = i)
      OBVIOUS
    <2>2. PICK s : s = [call |-> c, at |-> i, oath |-> o, wrong |-> d.wrong]
      OBVIOUS
    <2>3. s \in Sentences /\ s.oath = o /\ s = Sentence(c, i, d)
      BY <1>1, <2>1, <2>2 DEF Sentences, Sentence
    <2>4. PICK t : t = corrected(s, d)
      OBVIOUS
    <2>5. t \in Sentences /\ t.oath = s.oath
      BY <2>3, <2>4 DEF corrected, Sentences
    <2> QED BY <2>1, <2>3, <2>4, <2>5
  <1>3. \A i \in 1 .. d.size : Sentence(c, i, d) \in Sentences /\ corrected(Sentence(c, i, d), d) \in Sentences
    BY <1>2
  <1>4. Text(c, d) \in Seq(Sentences) /\ Len(Text(c, d)) = d.size
    BY <1>1, <1>3 DEF Text
  <1>5. FirstText(d, c) \in Seq(Sentences) /\ Len(FirstText(d, c)) = d.size
    BY <1>1, <1>3 DEF FirstText
  <1>6. \A i \in 1 .. d.size : /\ Text(c, d)[i] = Sentence(c, i, d)
                               /\ FirstText(d, c)[i] = corrected(Sentence(c, i, d), d)
    BY DEF Text, FirstText
  <1> QED BY <1>2, <1>4, <1>5, <1>6

LEMMA WorkStarts ==
    ASSUME NEW d, Sound(d), NEW c \in Nat, NEW K, \A f \in Fields : d.fact[f] \in K
    PROVE  LET v == correct_identifier_readbacks(Work(d, c))
           IN  At(d, c, v, K) /\ v.lost = {} /\ v.reask = NoField /\ v.text = FirstText(d, c)
  <1>1. PICK w : w = Work(d, c)
    OBVIOUS
  <1>2. d \in Answers /\ Text(c, d) \in Seq(Sentences) /\ DOMAIN Text(c, d) = 1 .. d.size
    BY FirstSentences DEF Sound, Answers, Text
  <1>3. /\ w \in Works /\ w.r = d /\ w.text = Text(c, d) /\ w.lost = {} /\ w.reask = NoField /\ w.dropped = {}
        /\ w.pend = {} /\ w.answered = NoField
    BY <1>1, <1>2 DEF Work, Works
  <1>4. [i \in DOMAIN w.text |-> corrected(w.text[i], w.r)] = FirstText(d, c)
    <2>1. DOMAIN w.text = 1 .. d.size /\ \A i \in 1 .. d.size : w.text[i] = Sentence(c, i, d)
      BY <1>2, <1>3 DEF Text
    <2> QED BY <1>3, <2>1 DEF FirstText
  <1>5. PICK t : t = FirstText(d, c)
    OBVIOUS
  <1>6. t \in Seq(Sentences)
    BY <1>5, FirstSentences
  <1>7. PICK v : v = [w EXCEPT !.text = t]
    OBVIOUS
  <1>8. v \in Works /\ v.r = d /\ v.text = t /\ v.lost = {} /\ v.reask = NoField
    BY <1>3, <1>6, <1>7 DEF Works
  <1>9. v = correct_identifier_readbacks(w)
    BY <1>4, <1>5, <1>7 DEF correct_identifier_readbacks
  <1>10. Words(d, c, v)
    <2>1. Len(t) = d.size /\ \A i \in 1 .. d.size - 1 : t[i] = FirstText(d, c)[i]
      BY <1>5, FirstSentences
    <2> QED BY <1>5, <1>8, <2>1 DEF Words
  <1>11. Follows(d, v) /\ Listed(d, v) /\ Only(v, K)
    BY <1>8 DEF Follows, Listed, Only
  <1> QED BY <1>1, <1>5, <1>8, <1>9, <1>10, <1>11 DEF At

(* A question whose answer is known is no longer asked.                         *)
LEMMA StaleAskingKept ==
    ASSUME NEW d, NEW c, NEW K, NEW w, At(d, c, w, K)
    PROVE  LET v == drop_stale_asking(w)
           IN  At(d, c, v, K) /\ v.lost = w.lost /\ v.reask = w.reask /\ v.text = w.text
  <1>1. CASE drop_stale_asking(w) = w
    BY <1>1
  <1>2. CASE drop_stale_asking(w) # w
    <2>1. PICK q : q = IF w.r.asking \in ask.agenda THEN w.r.asking ELSE NoField
      OBVIOUS
    <2>2. PICK a : a = w.r
      OBVIOUS
    <2>3. w \in Works /\ a \in Answers /\ a.asking \in Fields \cup {NoField}
      BY <2>2 DEF At, Follows, Works, Answers
    <2>4. q \in Fields \cup {NoField}
      BY <2>1, <2>2, <2>3
    <2>5. PICK b : b = [a EXCEPT !.asking = NoField]
      OBVIOUS
    <2>6. /\ b \in Answers /\ b.json = a.json /\ b.answers = a.answers /\ b.cp = a.cp /\ b.shape = a.shape
          /\ b.fact = a.fact
      BY <2>3, <2>5 DEF Answers
    <2>7. PICK v : v = [w EXCEPT !.r = b, !.answered = q]
      OBVIOUS
    <2>8. /\ v \in Works /\ v.r = b /\ v.text = w.text /\ v.lost = w.lost /\ v.reask = w.reask
          /\ v.dropped = w.dropped
      BY <2>3, <2>4, <2>6, <2>7 DEF Works
    <2>9. v = drop_stale_asking(w)
      BY <1>2, <2>1, <2>2, <2>5, <2>7 DEF drop_stale_asking, agenda_field_ids
    <2>10. Follows(d, v) /\ Listed(d, v) /\ Only(v, K) /\ Words(d, c, v)
      BY <2>2, <2>6, <2>8 DEF At, Follows, Listed, Only, Words
    <2> QED BY <2>8, <2>9, <2>10 DEF At
  <1> QED BY <1>1, <1>2

(* The request to say a number again is the whole text, and is the guard's.       *)
LEMMA ReaskKept ==
    ASSUME NEW d, NEW c, NEW K, NEW w, At(d, c, w, K)
    PROVE  LET v == reask_dropped_identifier(w)
           IN  At(d, c, v, K) /\ v.lost = w.lost
  <1>1. CASE "id" \notin w.dropped
    BY <1>1 DEF reask_dropped_identifier
  <1>2. CASE "id" \in w.dropped
    <2>1. PICK s : s = Spoken("reask")
      OBVIOUS
    <2>2. s \in Sentences /\ s.call = 0
      BY <2>1 DEF Spoken, Sentences
    <2>3. PICK q : q = IF "id" \in ask.agenda THEN "id" ELSE w.r.asking
      OBVIOUS
    <2>4. PICK a : a = w.r
      OBVIOUS
    <2>5. w \in Works /\ a \in Answers /\ a.asking \in Fields \cup {NoField}
      BY <2>4 DEF At, Follows, Works, Answers
    <2>6. q \in Fields \cup {NoField}
      BY <2>3, <2>4, <2>5 DEF Fields
    <2>7. PICK b : b = [a EXCEPT !.cp = FALSE, !.over = FALSE, !.shape = "map", !.asking = q]
      OBVIOUS
    <2>8. /\ b \in Answers /\ b.json = a.json /\ b.answers = a.answers /\ ~b.cp /\ b.shape = "map"
          /\ b.fact = a.fact
      <3>1. PICK e : e = [a EXCEPT !.cp = FALSE]
        OBVIOUS
      <3>2. /\ e \in Answers /\ e.json = a.json /\ e.answers = a.answers /\ ~e.cp
            /\ e.fact = a.fact
        BY <2>5, <3>1 DEF Answers
      <3>3. PICK g : g = [e EXCEPT !.over = FALSE]
        OBVIOUS
      <3>4. /\ g \in Answers /\ g.json = e.json /\ g.answers = e.answers /\ g.cp = e.cp
            /\ g.fact = e.fact
        BY <3>2, <3>3 DEF Answers
      <3>5. PICK h : h = [g EXCEPT !.shape = "map", !.asking = q]
        OBVIOUS
      <3>6. /\ h \in Answers /\ h.json = g.json /\ h.answers = g.answers /\ h.cp = g.cp /\ h.shape = "map"
            /\ h.fact = g.fact
        BY <2>6, <3>4, <3>5 DEF Answers
      <3>7. b = h
        BY <2>7, <3>1, <3>3, <3>5
      <3> QED BY <3>2, <3>4, <3>6, <3>7
    <2>9. PICK t : t = <<s>>
      OBVIOUS
    <2>10. t \in Seq(Sentences) /\ 1 \in DOMAIN t /\ t[1] = s
      BY <2>2, <2>9
    <2>11. PICK v : v = [w EXCEPT !.text = t, !.reask = "id", !.r = b]
      OBVIOUS
    <2>12. "id" \in Fields /\ "id" # NoField
      BY InterviewAssumption DEF Fields
    <2>13. /\ v \in Works /\ v.r = b /\ v.text = t /\ v.lost = w.lost /\ v.reask = "id"
           /\ v.dropped = w.dropped
      BY <2>5, <2>8, <2>10, <2>11, <2>12 DEF Works
    <2>14. v = reask_dropped_identifier(w)
      BY <1>2, <2>1, <2>3, <2>4, <2>7, <2>9, <2>11 DEF reask_dropped_identifier
    <2>15. Words(d, c, v)
      BY <2>2, <2>10, <2>12, <2>13 DEF Words
    <2>16. Listed(d, v) /\ Only(v, K)
      BY <2>4, <2>8, <2>13 DEF At, Listed, Only
    <2>17. Follows(d, v)
      BY <2>4, <2>8, <2>13 DEF At, Follows
    <2> QED BY <2>13, <2>14, <2>15, <2>16, <2>17 DEF At
  <1> QED BY <1>1, <1>2

LEMMA IdentifiersRepaired ==
    ASSUME NEW d, Sound(d), NEW c \in Nat, NEW K, "none" \in K, \A f \in Fields : d.fact[f] \in K
    PROVE  LET v == repair_identifiers(Work(d, c))
           IN  At(d, c, v, K \ {"digits", "misheard"}) /\ v.lost = {}
  <1>1. PICK w : w = correct_identifier_readbacks(Work(d, c))
    OBVIOUS
  <1>2. At(d, c, w, K) /\ w.lost = {}
    BY <1>1, WorkStarts
  <1>3. PICK x : x = drop_stale_asking(w)
    OBVIOUS
  <1>4. At(d, c, x, K) /\ x.lost = {}
    BY <1>2, <1>3, StaleAskingKept
  <1>5. PICK y : y = drop_identifiers_with_wrong_digit_count(x)
    OBVIOUS
  <1>6. At(d, c, y, K \ {"digits"}) /\ y.lost = {}
    <2>1. PICK B : B = {"digits"}
      OBVIOUS
    <2>2. "none" \notin B /\ "none" \in K
      BY <2>1
    <2>4. Drop(x, With(x, B)).lost = x.lost
      BY <1>4, WorksAt, Dropped, KindsAreFields DEF Beside
    <2>3. At(d, c, Drop(x, With(x, B)), K \ B)
      BY <1>4, <2>2, AtWithout
    <2> QED BY <1>4, <1>5, <2>1, <2>3, <2>4 DEF drop_identifiers_with_wrong_digit_count
  <1>7. PICK z : z = drop_identifiers_not_as_said(y)
    OBVIOUS
  <1>8. At(d, c, z, (K \ {"digits"}) \ {"misheard"}) /\ z.lost = {}
    <2>1. PICK B, J : B = {"misheard"} /\ J = K \ {"digits"}
      OBVIOUS
    <2>2. "none" \notin B /\ "none" \in J
      BY <2>1
    <2>4. Drop(y, With(y, B)).lost = y.lost
      BY <1>6, WorksAt, Dropped, KindsAreFields DEF Beside
    <2>3. At(d, c, Drop(y, With(y, B)), J \ B)
      BY <1>6, <2>1, <2>2, AtWithout
    <2> QED BY <1>6, <1>7, <2>1, <2>3, <2>4 DEF drop_identifiers_not_as_said
  <1>9. (K \ {"digits"}) \ {"misheard"} = K \ {"digits", "misheard"}
    OBVIOUS
  <1>10. PICK v : v = reask_dropped_identifier(z)
    OBVIOUS
  <1>11. At(d, c, v, K \ {"digits", "misheard"}) /\ v.lost = {}
    BY <1>8, <1>9, <1>10, ReaskKept
  <1> QED BY <1>1, <1>3, <1>5, <1>7, <1>10, <1>11 DEF repair_identifiers

-----------------------------------------------------------------------------
(* The interviewer's turn: the evidence                                        *)

LEMMA EvidenceKept ==
    ASSUME NEW d, NEW c, NEW K, "none" \in K, NEW w, At(d, c, w, K), w.lost = {}
    PROVE  At(d, c, drop_facts_without_current_evidence(w), K \ {"unsaid", "carried"})
  <1>1. PICK B : B = {"unsaid", "carried"}
    OBVIOUS
  <1>2. PICK gone : gone = never_said(w) \cup free_text_carried(w)
    OBVIOUS
  <1>3. gone \in SUBSET Fields /\ free_text_carried(w) \in SUBSET Fields
    BY <1>2 DEF never_said, free_text_carried, With
  <1>4. \A f \in Fields : f \in gone <=> w.r.fact[f] \in B
    BY <1>1, <1>2 DEF never_said, free_text_carried, With
  <1>5. w \in Works
    BY WorksAt
  <1>6. CASE gone = {}
    <2>1. Only(w, K \ B)
      BY <1>4, <1>6 DEF At, Only
    <2>2. At(d, c, w, K \ B)
      BY <2>1 DEF At
    <2> QED BY <1>1, <1>2, <1>6, <2>2 DEF drop_facts_without_current_evidence
  <1>7. CASE gone # {}
    <2>1. PICK u : u = Drop(w, gone)
      OBVIOUS
    <2>2. At(d, c, u, K)
      BY <1>3, <2>1, AtDropped
    <2>3. \A f \in Fields : u.r.fact[f] = IF f \in gone THEN "none" ELSE w.r.fact[f]
      BY <1>3, <1>5, <2>1, Dropped
    <2>4. PICK l, p : l = w.dropped \ gone /\ p = free_text_carried(w)
      OBVIOUS
    <2>5. l \in SUBSET Fields /\ p \in SUBSET Fields
      BY <1>3, <1>5, <2>4 DEF Works
    <2>6. PICK v : v = [u EXCEPT !.dropped = gone, !.lost = l, !.pend = p]
      OBVIOUS
    <2>7. u \in Works
      BY <2>2, WorksAt
    <2>8. /\ v \in Works /\ v.r = u.r /\ v.text = u.text /\ v.reask = u.reask /\ v.dropped = gone
          /\ v.lost = l
      BY <1>3, <2>5, <2>6, <2>7 DEF Works
    <2>9. Listed(d, v)
      BY <2>3, <2>4, <2>8 DEF At, Listed
    <2>10. Only(v, K \ B)
      BY <1>1, <1>4, <2>3, <2>8 DEF At, Only
    <2>11. Follows(d, v) /\ Words(d, c, v)
      BY <2>2, <2>8 DEF At, Follows, Words
    <2>12. v = drop_facts_without_current_evidence(w)
      BY <1>2, <1>7, <2>1, <2>4, <2>6 DEF drop_facts_without_current_evidence
    <2> QED BY <1>1, <2>9, <2>10, <2>11, <2>12 DEF At
  <1> QED BY <1>6, <1>7

LEMMA EvidenceRepaired ==
    ASSUME NEW d, NEW c, NEW K, "none" \in K, "ok" \in K, NEW w, At(d, c, w, K), w.lost = {}
    PROVE  At(d, c, repair_evidence(w), K \ {"idle", "unsaid", "carried", "pushback"})
  <1>1. PICK J : J = K \ {"idle"}
    OBVIOUS
  <1>2. PICK x : x = fix_occupations(w)
    OBVIOUS
  <1>3. At(d, c, x, J) /\ x.lost = {}
    <2>1. PICK B : B = {"idle"}
      OBVIOUS
    <2>2. "none" \notin B
      BY <2>1
    <2>3. At(d, c, Drop(w, With(w, B)), K \ B)
      BY <2>2, AtWithout
    <2>4. Drop(w, With(w, B)).lost = w.lost
      BY WorksAt, Dropped, KindsAreFields DEF Beside
    <2> QED BY <1>1, <1>2, <2>1, <2>3, <2>4 DEF fix_occupations
  <1>4. PICK y : y = file_probation_never_had(x)
    OBVIOUS
  <1>5. "ok" \in J /\ "none" \in J /\ "opt" \in Fields
    BY <1>1 DEF Fields
  <1>6. At(d, c, y, J) /\ y.lost = {}
    <2>1. y = x \/ y = File(x, "opt", "ok")
      BY <1>4 DEF file_probation_never_had
    <2>2. At(d, c, File(x, "opt", "ok"), J) /\ File(x, "opt", "ok").lost = x.lost
      BY <1>3, <1>5, AtFiled
    <2> QED BY <1>3, <2>1, <2>2
  <1>7. PICK z : z = close_trips_on_stated_count(y)
    OBVIOUS
  <1>8. At(d, c, z, J) /\ z.lost = {}
    <2>1. z = y \/ z = File(y, "opt", "ok")
      BY <1>7 DEF close_trips_on_stated_count
    <2>2. At(d, c, File(y, "opt", "ok"), J) /\ File(y, "opt", "ok").lost = y.lost
      BY <1>5, <1>6, AtFiled
    <2> QED BY <1>6, <2>1, <2>2
  <1>9. PICK u : u = drop_facts_without_current_evidence(z)
    OBVIOUS
  <1>10. At(d, c, u, J \ {"unsaid", "carried"})
    BY <1>5, <1>8, <1>9, EvidenceKept
  <1>11. PICK B, I : B = {"pushback"} /\ I = J \ {"unsaid", "carried"}
    OBVIOUS
  <1>12. "none" \notin B /\ "none" \in I
    BY <1>5, <1>11
  <1>13. At(d, c, Drop(u, With(u, B)), I \ B)
    BY <1>10, <1>11, <1>12, AtWithout
  <1>14. I \ B = K \ {"idle", "unsaid", "carried", "pushback"}
    BY <1>1, <1>11
  <1> QED BY <1>2, <1>4, <1>7, <1>9, <1>11, <1>13, <1>14 DEF repair_evidence, drop_no_that_pushed_back

-----------------------------------------------------------------------------
(* The interviewer's turn: the deferrals                                       *)

(* Nothing is filed and put off at once, and what comes with no answer is noted.   *)
Apart(w) == \A f \in Fields : w.r.fact[f] # "none" => w.r.defer[f] = "none"
Doubted(w) == (~w.r.answers /\ \E f \in Fields : w.r.fact[f] # "none") => "non_answer" \in w.r.marks

LEMMA QuestionReplaced ==
    ASSUME NEW d, NEW c, NEW K, NEW w, At(d, c, w, K)
    PROVE  At(d, c, replace_settled_question(w), K)
  <1>1. CASE replace_settled_question(w) = w
    BY <1>1
  <1>2. CASE replace_settled_question(w) # w
    <2>1. PICK nodes : nodes = {f \in ask.agenda : f # w.answered /\ w.r.fact[f] = "none"}
      OBVIOUS
    <2>2. PICK q : q = first_line(nodes)
      OBVIOUS
    <2>3. q \in Fields \cup {NoField}
      BY <2>2 DEF first_line, Fields
    <2>4. PICK a : a = w.r
      OBVIOUS
    <2>5. w \in Works /\ a \in Answers /\ w.text \in Seq(Sentences)
      BY <2>4, WorksAt DEF Works
    <2>6. PICK s : s = Spoken("next")
      OBVIOUS
    <2>7. s \in Sentences /\ s.call = 0
      BY <2>6 DEF Spoken, Sentences
    <2>8. PICK t : t = [w.text EXCEPT ![Len(w.text)] = s]
      OBVIOUS
    <2>9. /\ t \in Seq(Sentences) /\ Len(t) = Len(w.text) /\ DOMAIN t = 1 .. Len(w.text)
          /\ \A i \in 1 .. Len(w.text) : t[i] = IF i = Len(w.text) THEN s ELSE w.text[i]
      <3>1. PICK n : n = Len(w.text)
        OBVIOUS
      <3>2. n \in Nat /\ w.text \in [1 .. n -> Sentences]
        BY <2>5, <3>1
      <3>3. t \in [1 .. n -> Sentences] /\ \A i \in 1 .. n : t[i] = IF i = n THEN s ELSE w.text[i]
        BY <2>7, <2>8, <3>1, <3>2
      <3>4. t \in Seq(Sentences) /\ Len(t) = n
        BY <3>2, <3>3
      <3> QED BY <3>1, <3>3, <3>4
    <2>10. PICK b : b = [a EXCEPT !.asking = q]
      OBVIOUS
    <2>11. /\ b \in Answers /\ b.json = a.json /\ b.answers = a.answers /\ b.cp = a.cp /\ b.shape = a.shape
           /\ b.fact = a.fact
      BY <2>3, <2>5, <2>10 DEF Answers
    <2>12. PICK v : v = [w EXCEPT !.text = t, !.r = b]
      OBVIOUS
    <2>13. /\ v \in Works /\ v.r = b /\ v.text = t /\ v.lost = w.lost /\ v.reask = w.reask
           /\ v.dropped = w.dropped
      BY <2>5, <2>9, <2>11, <2>12 DEF Works
    <2>14. v = replace_settled_question(w)
      BY <1>2, <2>1, <2>2, <2>4, <2>6, <2>8, <2>10, <2>12 DEF replace_settled_question
    <2>15. Follows(d, v) /\ Listed(d, v) /\ Only(v, K)
      BY <2>4, <2>11, <2>13 DEF At, Follows, Listed, Only
    <2>16. Len(w.text) \in Nat
      BY <2>5
    <2>17. CASE Len(w.text) = 0
      <3>1. t = <<>> /\ w.text = <<>>
        BY <2>5, <2>9, <2>17
      <3> QED BY <2>13, <2>14, <2>15, <3>1 DEF At, Words
    <2>18. CASE Len(w.text) # 0
      <3>1. t[Len(w.text)].call = 0 /\ Len(w.text) \in DOMAIN t
        BY <2>7, <2>9, <2>16, <2>18
      <3>2. ASSUME w.reask = NoField, d.shape = "map"
            PROVE  Len(t) = d.size /\ \A i \in 1 .. d.size - 1 : t[i] = FirstText(d, c)[i]
        <4>1. Len(w.text) = d.size /\ \A i \in 1 .. d.size - 1 : w.text[i] = FirstText(d, c)[i]
          BY <3>2 DEF At, Words
        <4>2. \A i \in 1 .. d.size - 1 : i \in 1 .. d.size /\ i # d.size
          BY <2>16, <4>1
        <4> QED BY <2>9, <4>1, <4>2
      <3>3. Words(d, c, v)
        BY <2>13, <3>1, <3>2 DEF Words
      <3> QED BY <2>14, <2>15, <3>3 DEF At
    <2> QED BY <2>17, <2>18
  <1> QED BY <1>1, <1>2

LEMMA DefersAt == ASSUME NEW d, NEW c, NEW K, NEW w, At(d, c, w, K) PROVE w.r.defer \in [Fields -> DeferNames]
  BY DEF At, Follows, Works, Answers

LEMMA FiledDeferralsDropped ==
    ASSUME NEW d, NEW c, NEW K, NEW w, At(d, c, w, K)
    PROVE  At(d, c, drop_deferrals_of_filed_values(w), K)
  <1>1. PICK defers : defers = [f \in Fields |->
                          IF f \in ask.filed /\ w.r.defer[f] # "resaid" /\ first_line(ask.agenda) # f
                          THEN "none" ELSE w.r.defer[f]]
    OBVIOUS
  <1>2. defers \in [Fields -> DeferNames]
    BY <1>1, DefersAt DEF DeferNames
  <1> QED BY <1>1, <1>2, AtDefers DEF drop_deferrals_of_filed_values

LEMMA BothSettled ==
    ASSUME NEW d, NEW c, NEW K, "none" \in K, NEW w, At(d, c, w, K)
    PROVE  LET v == drop_facts_that_are_also_deferred(w)
           IN  At(d, c, v, K) /\ Apart(v)
  <1>1. PICK both : both = {f \in settledFacts(w.r) : deferral_stands(w.r, f)}
    OBVIOUS
  <1>2. both \in SUBSET Fields
    BY <1>1 DEF settledFacts
  <1>3. PICK u : u = Drop(w, both)
    OBVIOUS
  <1>4. At(d, c, u, K)
    BY <1>2, <1>3, AtDropped
  <1>5. /\ u.r.defer = w.r.defer
        /\ \A f \in Fields : u.r.fact[f] = IF f \in both THEN "none" ELSE w.r.fact[f]
    BY <1>2, <1>3, WorksAt, Dropped
  <1>6. PICK defers : defers = [f \in Fields |->
                          IF u.r.defer[f] = "gap" /\ u.r.fact[f] # "none" THEN "none" ELSE u.r.defer[f]]
    OBVIOUS
  <1>7. defers \in [Fields -> DeferNames]
    BY <1>4, <1>6, DefersAt DEF DeferNames
  <1>8. PICK v : v = WithDefers(u, defers)
    OBVIOUS
  <1>9. At(d, c, v, K)
    BY <1>4, <1>7, <1>8, AtDefers
  <1>10. v.r.fact = u.r.fact /\ v.r.defer = defers
    BY <1>4, <1>7, <1>8, WorksAt, DefersSet
  <1>11. Apart(v)
    <2>1. SUFFICES ASSUME NEW f \in Fields, u.r.fact[f] # "none" PROVE defers[f] = "none"
      BY <1>10 DEF Apart
    <2>2. f \notin both /\ w.r.fact[f] # "none"
      BY <1>5, <2>1
    <2>3. ~deferral_stands(w.r, f)
      BY <1>1, <2>2 DEF settledFacts
    <2>4. w.r.defer[f] \in {"none", "gap"}
      BY <2>3, DefersAt DEF deferral_stands, DeferNames
    <2> QED BY <1>5, <1>6, <2>1, <2>4
  <1>12. v = drop_facts_that_are_also_deferred(w)
    BY <1>1, <1>3, <1>6, <1>8 DEF drop_facts_that_are_also_deferred
  <1> QED BY <1>9, <1>11, <1>12

LEMMA PutOffKept ==
    ASSUME NEW d, NEW c, NEW K, "none" \in K, NEW w, At(d, c, w, K), Apart(w), Doubted(w), NEW B, "none" \notin B
    PROVE  LET v == PutOff(w, With(w, B))
           IN  At(d, c, v, K \ B) /\ Apart(v) /\ Doubted(v)
  <1>1. PICK gone : gone = With(w, B)
    OBVIOUS
  <1>2. gone \in SUBSET Fields
    BY <1>1 DEF With
  <1>3. PICK u : u = Drop(w, gone)
    OBVIOUS
  <1>4. At(d, c, u, K \ B)
    BY <1>1, <1>3, AtWithout
  <1>5. /\ u.r.defer = w.r.defer /\ u.r.answers = w.r.answers /\ u.r.marks = w.r.marks
        /\ \A f \in Fields : u.r.fact[f] = IF f \in gone THEN "none" ELSE w.r.fact[f]
    BY <1>2, <1>3, WorksAt, Dropped DEF Alike
  <1>6. PICK defers : defers = [f \in Fields |->
                          IF f \in gone /\ w.r.defer[f] = "none" THEN "applicant" ELSE w.r.defer[f]]
    OBVIOUS
  <1>7. defers \in [Fields -> DeferNames]
    BY <1>6, DefersAt DEF DeferNames
  <1>8. PICK v : v = WithDefers(u, defers)
    OBVIOUS
  <1>9. At(d, c, v, K \ B)
    BY <1>4, <1>7, <1>8, AtDefers
  <1>10. /\ v.r.fact = u.r.fact /\ v.r.defer = defers /\ v.r.marks = u.r.marks /\ v.r.answers = u.r.answers
    BY <1>4, <1>7, <1>8, WorksAt, DefersSet DEF Alike
  <1>11. Apart(v)
    BY <1>5, <1>6, <1>10 DEF Apart
  <1>12. Doubted(v)
    BY <1>5, <1>10 DEF Doubted
  <1>13. v = PutOff(w, gone)
    BY <1>3, <1>6, <1>8 DEF PutOff
  <1> QED BY <1>1, <1>9, <1>11, <1>12, <1>13

LEMMA DeferralsRepaired ==
    ASSUME NEW d, NEW c, NEW K, "none" \in K, NEW w, At(d, c, w, K)
    PROVE  LET v == repair_deferrals(w)
           IN  At(d, c, v, K \ {"day", "partial"}) /\ Apart(v) /\ Doubted(v)
  <1>1. PICK x : x = drop_deferrals_of_filed_values(replace_settled_question(w))
    OBVIOUS
  <1>2. At(d, c, x, K)
    BY <1>1, QuestionReplaced, FiledDeferralsDropped
  <1>3. PICK y : y = mark_unknown_deferral_origins(x)
    OBVIOUS
  <1>4. At(d, c, y, K)
    <2>1. PICK on \in BOOLEAN : on = (\E f \in Fields : x.r.defer[f] = "unknown")
      OBVIOUS
    <2>2. At(d, c, Note(x, on, "deferred_origin_unknown"), K)
      <3>1. "deferred_origin_unknown" \in MarkNames
        BY DEF MarkNames
      <3> QED BY <1>2, <3>1, AtNoted, Zenon
    <2>3. y = Note(x, on, "deferred_origin_unknown")
      BY <1>3, <2>1, Zenon DEF mark_unknown_deferral_origins
    <2> QED BY <2>2, <2>3
  <1>5. PICK z : z = drop_facts_that_are_also_deferred(y)
    OBVIOUS
  <1>6. At(d, c, z, K) /\ Apart(z)
    BY <1>4, <1>5, BothSettled
  <1>7. PICK u : u = mark_facts_minted_on_a_non_answer(z)
    OBVIOUS
  <1>8. PICK on \in BOOLEAN : on = (~z.r.answers /\ settledFacts(z.r) # {})
    OBVIOUS
  <1>9. At(d, c, u, K) /\ Apart(u) /\ Doubted(u)
    <2>1. u = Note(z, on, "non_answer")
      BY <1>7, <1>8, Zenon DEF mark_facts_minted_on_a_non_answer
    <2>2. "non_answer" \in MarkNames
      BY DEF MarkNames
    <2>3. /\ At(d, c, u, K)
          /\ u.r.fact = z.r.fact /\ u.r.defer = z.r.defer /\ u.r.answers = z.r.answers
          /\ on => "non_answer" \in u.r.marks
      <3>1. At(d, c, u, K)
        BY <1>6, <2>1, <2>2, AtNoted, Zenon
      <3>2. z \in Works
        BY <1>6, WorksAt, Zenon
      <3>3. Alike(u.r, z.r) /\ u.r.fact = z.r.fact /\ u.r.defer = z.r.defer
        BY <2>1, <2>2, <3>2, Noted, Zenon
      <3>4. on => "non_answer" \in u.r.marks
        BY <2>1, <2>2, <3>2, Noted, Zenon
      <3> QED BY <3>1, <3>3, <3>4 DEF Alike
    <2>4. Apart(u)
      BY <1>6, <2>3 DEF Apart
    <2>5. Doubted(u)
      BY <1>8, <2>3 DEF Doubted, settledFacts
    <2> QED BY <2>3, <2>4, <2>5
  <1>10. PICK B, C : B = {"day"} /\ C = {"partial"}
    OBVIOUS
  <1>11. "none" \notin B /\ "none" \notin C
    BY <1>10
  <1>12. PICK t : t = PutOff(u, With(u, B))
    OBVIOUS
  <1>13. At(d, c, t, K \ B) /\ Apart(t) /\ Doubted(t)
    BY <1>9, <1>11, <1>12, PutOffKept
  <1>14. PICK v : v = PutOff(t, With(t, C))
    OBVIOUS
  <1>15. PICK J : J = K \ B
    OBVIOUS
  <1>16. "none" \in J /\ At(d, c, t, J)
    BY <1>11, <1>13, <1>15
  <1>17. At(d, c, v, J \ C) /\ Apart(v) /\ Doubted(v)
    BY <1>11, <1>13, <1>14, <1>16, PutOffKept
  <1>18. J \ C = K \ {"day", "partial"}
    BY <1>10, <1>15
  <1>19. v = repair_deferrals(w)
    BY <1>1, <1>3, <1>5, <1>7, <1>10, <1>12, <1>14
       DEF repair_deferrals, defer_dates_with_unspoken_day, defer_dates_off_their_known_partial, day_unspoken,
           off_known_partial
  <1> QED BY <1>17, <1>18, <1>19

-----------------------------------------------------------------------------
(* The interviewer's turn: the reply that leaves                               *)

(* The kinds of facts a reply leaves with; its end is declared on no open agenda;  *)
(* a doubtful choice is noted.                                                   *)
Leaves == {"none", "ok", "restored", "outside", "battery", "closes"}
Closed(w) == w.r.over => ask.agenda = {}
Chosen(w) == w.r.fact["opt"] \in {"outside", "battery"} => w.r.marks \cap {"outside_options", "battery_unspoken"} # {}
Filed(d, c, w, K) == At(d, c, w, K) /\ Apart(w) /\ Doubted(w)

(* A repair that leaves the facts, the deferrals, the marks and the lists alone.    *)
LEMMA ReplyChanged ==
    ASSUME NEW d, NEW c, NEW K, NEW w, Filed(d, c, w, K), NEW b \in Answers,
           b.json = w.r.json, b.answers = w.r.answers, b.cp => w.r.cp, b.shape \in {w.r.shape, "map"},
           b.fact = w.r.fact, b.defer = w.r.defer, b.marks = w.r.marks
    PROVE  Filed(d, c, [w EXCEPT !.r = b], K) /\ [w EXCEPT !.r = b].r = b
  <1>1. PICK v : v = [w EXCEPT !.r = b]
    OBVIOUS
  <1>2. w \in Works
    BY WorksAt DEF Filed
  <1>3. /\ v \in Works /\ v.r = b /\ v.text = w.text /\ v.lost = w.lost /\ v.reask = w.reask
        /\ v.dropped = w.dropped
    BY <1>1, <1>2 DEF Works
  <1>4. Follows(d, v)
    BY <1>3 DEF Filed, At, Follows
  <1>5. Listed(d, v) /\ Only(v, K) /\ Words(d, c, v)
    BY <1>3 DEF Filed, At, Listed, Only, Words
  <1>6. Apart(v) /\ Doubted(v)
    BY <1>3 DEF Filed, Apart, Doubted
  <1> QED BY <1>1, <1>3, <1>4, <1>5, <1>6 DEF Filed, At

LEMMA NoteFiled ==
    ASSUME NEW d, NEW c, NEW K, NEW w, Filed(d, c, w, K), NEW on \in BOOLEAN, NEW mark \in MarkNames
    PROVE  LET v == Note(w, on, mark)
           IN  /\ Filed(d, c, v, K) /\ v.r.fact = w.r.fact /\ v.r.defer = w.r.defer /\ v.r.over = w.r.over
               /\ v.pend = w.pend /\ v.text = w.text /\ v.reask = w.reask
               /\ w.r.marks \subseteq v.r.marks /\ (on => mark \in v.r.marks)
  <1>1. PICK v : v = Note(w, on, mark)
    OBVIOUS
  <1>2. w \in Works
    BY WorksAt DEF Filed
  <1>3. At(d, c, v, K)
    BY <1>1, AtNoted, Zenon DEF Filed
  <1>4. /\ Beside(v, w) /\ Alike(v.r, w.r) /\ v.r.fact = w.r.fact /\ v.r.defer = w.r.defer
        /\ w.r.marks \subseteq v.r.marks
    BY <1>1, <1>2, Noted, Zenon
  <1>5. on => mark \in v.r.marks
    BY <1>1, <1>2, Noted, Zenon
  <1>6. Apart(v) /\ Doubted(v)
    BY <1>4 DEF Filed, Apart, Doubted, Alike
  <1>7. Filed(d, c, v, K)
    BY <1>3, <1>6 DEF Filed
  <1>8. v.r.over = w.r.over /\ v.pend = w.pend /\ v.text = w.text /\ v.reask = w.reask
    BY <1>4 DEF Alike, Beside
  <1> QED BY <1>1, <1>4, <1>5, <1>7, <1>8, Zenon

LEMMA ShapeNormalized ==
    ASSUME NEW d, NEW c, NEW K, NEW w, Filed(d, c, w, K)
    PROVE  Filed(d, c, normalize_reply_shape(w), K)
  <1>1. CASE w.r.shape # "string"
    BY <1>1 DEF normalize_reply_shape
  <1>2. CASE w.r.shape = "string"
    <2>1. PICK a : a = w.r
      OBVIOUS
    <2>2. a \in Answers
      BY <2>1, WorksAt DEF Filed, Works
    <2>3. PICK b : b = [a EXCEPT !.shape = "map"]
      OBVIOUS
    <2>4. /\ b \in Answers /\ b.json = a.json /\ b.answers = a.answers /\ b.cp = a.cp /\ b.shape = "map"
          /\ b.fact = a.fact /\ b.defer = a.defer /\ b.marks = a.marks
      BY <2>2, <2>3 DEF Answers
    <2>5. Filed(d, c, [w EXCEPT !.r = b], K)
      BY <2>1, <2>4, ReplyChanged
    <2> QED BY <1>2, <2>1, <2>3, <2>5 DEF normalize_reply_shape
  <1> QED BY <1>1, <1>2

LEMMA OverCleared ==
    ASSUME NEW d, NEW c, NEW K, NEW w, Filed(d, c, w, K)
    PROVE  Filed(d, c, clear_interview_over_while_agenda_open(w), K) /\ Closed(clear_interview_over_while_agenda_open(w))
  <1>1. CASE ask.agenda = {}
    BY <1>1 DEF clear_interview_over_while_agenda_open, Closed
  <1>2. CASE ask.agenda # {}
    <2>1. PICK a : a = w.r
      OBVIOUS
    <2>2. a \in Answers
      BY <2>1, WorksAt DEF Filed, Works
    <2>3. PICK b : b = [a EXCEPT !.over = FALSE]
      OBVIOUS
    <2>4. /\ b \in Answers /\ b.json = a.json /\ b.answers = a.answers /\ b.cp = a.cp /\ b.shape = a.shape
          /\ b.fact = a.fact /\ b.defer = a.defer /\ b.marks = a.marks /\ ~b.over
      BY <2>2, <2>3 DEF Answers
    <2>5. Filed(d, c, [w EXCEPT !.r = b], K) /\ [w EXCEPT !.r = b].r = b
      BY <2>1, <2>4, ReplyChanged
    <2>6. clear_interview_over_while_agenda_open(w) = [w EXCEPT !.r = b]
      BY <1>2, <2>1, <2>3 DEF clear_interview_over_while_agenda_open
    <2> QED BY <2>4, <2>5, <2>6 DEF Closed
  <1> QED BY <1>1, <1>2

LEMMA CheckpointDropped ==
    ASSUME NEW d, NEW c, NEW K, NEW w, Filed(d, c, w, K), Closed(w), Chosen(w)
    PROVE  LET v == drop_checkpoint_when_asking_set(w) IN Filed(d, c, v, K) /\ Closed(v) /\ Chosen(v)
  <1>1. CASE drop_checkpoint_when_asking_set(w) = w
    BY <1>1
  <1>2. CASE drop_checkpoint_when_asking_set(w) # w
    <2>1. PICK a : a = w.r
      OBVIOUS
    <2>2. a \in Answers
      BY <2>1, WorksAt DEF Filed, Works
    <2>3. PICK b : b = [a EXCEPT !.cp = FALSE]
      OBVIOUS
    <2>4. /\ b \in Answers /\ b.json = a.json /\ b.answers = a.answers /\ ~b.cp /\ b.shape = a.shape
          /\ b.fact = a.fact /\ b.defer = a.defer /\ b.marks = a.marks /\ b.over = a.over
      BY <2>2, <2>3 DEF Answers
    <2>5. Filed(d, c, [w EXCEPT !.r = b], K) /\ [w EXCEPT !.r = b].r = b
      BY <2>1, <2>4, ReplyChanged
    <2>6. drop_checkpoint_when_asking_set(w) = [w EXCEPT !.r = b]
      BY <1>2, <2>1, <2>3 DEF drop_checkpoint_when_asking_set
    <2>7. Closed([w EXCEPT !.r = b]) /\ Chosen([w EXCEPT !.r = b])
      BY <2>1, <2>4, <2>5 DEF Closed, Chosen
    <2> QED BY <2>5, <2>6, <2>7
  <1> QED BY <1>1, <1>2

LEMMA UnusableDropped ==
    ASSUME NEW d, NEW c, NEW K, NEW w, Filed(d, c, w, K), Closed(w), Chosen(w)
    PROVE  LET v == drop_unusable_reply(w) IN Filed(d, c, v, K) /\ Closed(v) /\ Chosen(v)
  <1>1. CASE w.r.shape # "unreadable"
    BY <1>1 DEF drop_unusable_reply
  <1>2. CASE w.r.shape = "unreadable"
    <2>1. PICK t : t = <<>>
      OBVIOUS
    <2>2. PICK v : v = [w EXCEPT !.text = t]
      OBVIOUS
    <2>3. w \in Works /\ t \in Seq(Sentences)
      BY <2>1, WorksAt DEF Filed
    <2>4. /\ v \in Works /\ v.r = w.r /\ v.text = t /\ v.lost = w.lost /\ v.reask = w.reask
          /\ v.dropped = w.dropped
      BY <2>2, <2>3 DEF Works
    <2>5. d.shape # "map"
      BY <1>2 DEF Filed, At, Follows
    <2>6. Words(d, c, v)
      BY <2>1, <2>4, <2>5 DEF Words
    <2>7. Follows(d, v)
      BY <2>4 DEF Filed, At, Follows
    <2>8. Listed(d, v) /\ Only(v, K)
      BY <2>4 DEF Filed, At, Listed, Only
    <2>9. Apart(v) /\ Doubted(v) /\ Closed(v) /\ Chosen(v)
      BY <2>4 DEF Filed, Apart, Doubted, Closed, Chosen
    <2>10. v = drop_unusable_reply(w)
      BY <1>2, <2>1, <2>2 DEF drop_unusable_reply
    <2> QED BY <2>6, <2>7, <2>8, <2>9, <2>10 DEF Filed, At
  <1> QED BY <1>1, <1>2

LEMMA ReplyRepaired ==
    ASSUME NEW d, NEW c, NEW K, NEW w, Filed(d, c, w, K)
    PROVE  LET v == repair_reply(w) IN Filed(d, c, v, K) /\ Closed(v) /\ Chosen(v)
  <1>1. PICK x : x = clear_interview_over_while_agenda_open(normalize_reply_shape(w))
    OBVIOUS
  <1>2. Filed(d, c, x, K) /\ Closed(x)
    BY <1>1, ShapeNormalized, OverCleared
  <1>3. PICK a \in BOOLEAN : a = (x.r.fact["opt"] = "outside")
    OBVIOUS
  <1>4. "outside_options" \in MarkNames /\ "battery_unspoken" \in MarkNames
    BY DEF MarkNames
  <1>5. PICK y : y = Note(x, a, "outside_options")
    OBVIOUS
  <1>6. /\ Filed(d, c, y, K) /\ y.r.fact = x.r.fact /\ y.r.over = x.r.over
    <2>1. Filed(d, c, y, K)
      BY <1>2, <1>4, <1>5, NoteFiled, Zenon
    <2>2. x \in Works
      BY <1>2, WorksAt DEF Filed
    <2>3. y.r.fact = x.r.fact /\ Alike(y.r, x.r)
      BY <1>4, <1>5, <2>2, Noted, Zenon
    <2> QED BY <2>1, <2>3 DEF Alike
  <1>7. a => "outside_options" \in y.r.marks
    BY <1>2, <1>4, <1>5, NoteFiled, Zenon
  <1>8. PICK b \in BOOLEAN : b = (y.r.fact["opt"] = "battery")
    OBVIOUS
  <1>9. PICK z : z = Note(y, b, "battery_unspoken")
    OBVIOUS
  <1>10. /\ Filed(d, c, z, K) /\ z.r.fact = y.r.fact /\ z.r.over = y.r.over /\ y.r.marks \subseteq z.r.marks
    <2>1. Filed(d, c, z, K)
      BY <1>4, <1>6, <1>9, NoteFiled, Zenon
    <2>2. y \in Works
      BY <1>6, WorksAt DEF Filed
    <2>3. z.r.fact = y.r.fact /\ Alike(z.r, y.r)
      BY <1>4, <1>9, <2>2, Noted, Zenon
    <2>4. y.r.marks \subseteq z.r.marks
      BY <1>4, <1>9, <2>2, Noted, Zenon
    <2> QED BY <2>1, <2>3, <2>4 DEF Alike
  <1>11. b => "battery_unspoken" \in z.r.marks
    BY <1>4, <1>6, <1>9, NoteFiled, Zenon
  <1>12. Closed(z)
    BY <1>2, <1>6, <1>10, Zenon DEF Closed
  <1>13. Chosen(z)
    BY <1>3, <1>6, <1>7, <1>8, <1>10, <1>11 DEF Chosen
  <1>14. y = mark_values_outside_declared_options(x)
    BY <1>3, <1>5, Zenon DEF mark_values_outside_declared_options
  <1>15. z = mark_battery_shortfall(y)
    BY <1>8, <1>9, Zenon DEF mark_battery_shortfall
  <1>16. PICK u : u = drop_checkpoint_when_asking_set(z)
    OBVIOUS
  <1>17. Filed(d, c, u, K) /\ Closed(u) /\ Chosen(u)
    BY <1>10, <1>12, <1>13, <1>16, CheckpointDropped
  <1>18. PICK v : v = drop_unusable_reply(u)
    OBVIOUS
  <1>19. Filed(d, c, v, K) /\ Closed(v) /\ Chosen(v)
    BY <1>17, <1>18, UnusableDropped
  <1> QED BY <1>1, <1>14, <1>15, <1>16, <1>18, <1>19 DEF repair_reply

(* The whole of guard_response_text.                                           *)
LEMMA ReplyGuarded ==
    ASSUME NEW d, Sound(d), d.json, d.fact["date"] # "inverted", NEW c \in Nat
    PROVE  LET v == guard_response_text(Work(d, c)) IN Filed(d, c, v, Leaves) /\ Closed(v) /\ Chosen(v)
  <1>1. PICK I : I = FactNames \ {"inverted"}
    OBVIOUS
  <1>2. \A f \in Fields : d.fact[f] \in I
    BY <1>1 DEF Sound, Answers, Fields
  <1>3. "none" \in I /\ "ok" \in I
    BY <1>1 DEF FactNames
  <1>4. PICK w : w = repair_identifiers(Work(d, c))
    OBVIOUS
  <1>5. PICK J : J = I \ {"digits", "misheard"}
    OBVIOUS
  <1>6. At(d, c, w, J) /\ w.lost = {}
    BY <1>2, <1>3, <1>4, <1>5, IdentifiersRepaired
  <1>7. "none" \in J /\ "ok" \in J
    BY <1>3, <1>5
  <1>8. PICK x : x = repair_evidence(w)
    OBVIOUS
  <1>9. PICK L : L = J \ {"idle", "unsaid", "carried", "pushback"}
    OBVIOUS
  <1>10. At(d, c, x, L) /\ "none" \in L
    BY <1>6, <1>7, <1>8, <1>9, EvidenceRepaired
  <1>11. PICK y : y = repair_deferrals(x)
    OBVIOUS
  <1>12. Filed(d, c, y, L \ {"day", "partial"})
    BY <1>10, <1>11, DeferralsRepaired DEF Filed
  <1>13. L \ {"day", "partial"} = Leaves
    BY <1>1, <1>5, <1>9 DEF Leaves, FactNames
  <1>14. PICK v : v = repair_reply(y)
    OBVIOUS
  <1>15. Filed(d, c, v, Leaves) /\ Closed(v) /\ Chosen(v)
    BY <1>12, <1>13, <1>14, ReplyRepaired
  <1>16. Work(d, c).r = d
    BY DEF Work
  <1>17. guard_response_text(Work(d, c)) = v
    BY <1>4, <1>8, <1>11, <1>14, <1>16 DEF guard_response_text
  <1> QED BY <1>15, <1>17

-----------------------------------------------------------------------------
(* The interviewer's turn: the judge                                           *)

(* The judge gives back facts that are not put off, and moves nothing else.       *)
Restored(v, w, back) ==
    /\ back \subseteq Fields /\ \A f \in back : w.r.defer[f] = "none"
    /\ v.dropped = w.dropped \ back /\ v.lost = w.lost
    /\ \A f \in Fields : v.r.fact[f] = IF f \in back THEN "restored" ELSE w.r.fact[f]
    /\ Alike(v.r, w.r) /\ v.r.defer = w.r.defer /\ w.r.marks \subseteq v.r.marks
    /\ v.text = w.text /\ v.reask = w.reask

LEMMA Judged ==
    ASSUME NEW w \in Works, NEW backed
    PROVE  LET v == restore_supported_carried_facts(mark_unsupported_enum_facts(w, backed), backed)
           IN  v \in Works /\ \E back : Restored(v, w, back)
  <1>1. PICK on \in BOOLEAN : on = (w.r.json /\ w.r.fact["opt"] # "none" /\ "opt" \notin backed)
    OBVIOUS
  <1>2. PICK u : u = Note(w, on, "unsupported")
    OBVIOUS
  <1>3. "unsupported" \in MarkNames
    BY DEF MarkNames
  <1>4. /\ u \in Works /\ Beside(u, w) /\ u.dropped = w.dropped /\ Alike(u.r, w.r)
        /\ u.r.fact = w.r.fact /\ u.r.defer = w.r.defer
    BY <1>2, <1>3, Noted, Zenon
  <1>5. w.r.marks \subseteq u.r.marks
    BY <1>2, <1>3, Noted, Zenon
  <1>6. u = mark_unsupported_enum_facts(w, backed)
    BY <1>1, <1>2, Zenon DEF mark_unsupported_enum_facts
  <1>7. PICK back : back = {f \in u.pend \cap backed : u.r.defer[f] = "none"}
    OBVIOUS
  <1>8. back \subseteq Fields /\ \A f \in back : u.r.defer[f] = "none"
    BY <1>4, <1>7 DEF Works
  <1>9. PICK facts : facts = [f \in Fields |-> IF f \in back THEN "restored" ELSE u.r.fact[f]]
    OBVIOUS
  <1>10. u.r.fact \in [Fields -> FactNames]
    BY <1>4 DEF Works, Answers
  <1>11. /\ facts \in [Fields -> FactNames]
         /\ \A f \in Fields : facts[f] = IF f \in back THEN "restored" ELSE u.r.fact[f]
    BY <1>9, <1>10 DEF FactNames
  <1>12. PICK x : x = WithFacts(u, facts)
    OBVIOUS
  <1>13. /\ x \in Works /\ Beside(x, u) /\ x.dropped = u.dropped /\ Alike(x.r, u.r)
         /\ x.r.fact = facts /\ x.r.defer = u.r.defer /\ x.r.marks = u.r.marks
    BY <1>4, <1>11, <1>12, FactsSet
  <1>14. PICK g, e : g = u.dropped \ back /\ e = {}
    OBVIOUS
  <1>15. g \in SUBSET Fields /\ e \in SUBSET Fields
    BY <1>4, <1>14 DEF Works
  <1>16. PICK v : v = [x EXCEPT !.dropped = g, !.pend = e]
    OBVIOUS
  <1>17. v \in Works /\ v.r = x.r /\ v.text = x.text /\ v.lost = x.lost /\ v.reask = x.reask /\ v.dropped = g
    BY <1>13, <1>15, <1>16 DEF Works
  <1>18. v = restore_supported_carried_facts(u, backed)
    BY <1>7, <1>9, <1>12, <1>14, <1>16 DEF restore_supported_carried_facts
  <1>19. /\ v.text = w.text /\ v.reask = w.reask /\ v.lost = w.lost
    BY <1>4, <1>13, <1>17 DEF Beside
  <1>20. Alike(v.r, w.r)
    BY <1>4, <1>13, <1>17 DEF Alike
  <1>21. Restored(v, w, back)
    BY <1>4, <1>5, <1>8, <1>11, <1>13, <1>14, <1>17, <1>19, <1>20 DEF Restored
  <1> QED BY <1>6, <1>17, <1>18, <1>21

(* What FiledAsSaid says of a reply w that leaves, made of reply d.              *)
SaidOf(d, w) ==
    /\ \A f \in Fields : w.r.fact[f] \in {"none", "ok", "restored", "outside", "battery", "closes"}
    /\ w.r.fact["opt"] \in {"outside", "battery"} => w.r.marks \cap {"outside_options", "battery_unspoken"} # {}
    /\ ~w.r.answers /\ (\E f \in Fields : w.r.fact[f] \notin {"none", "restored"}) => "non_answer" \in w.r.marks
    /\ \A f \in Fields : w.r.fact[f] # "none" => w.r.defer[f] = "none"
    /\ \A f \in Fields : d.fact[f] # "none" /\ w.r.fact[f] = "none" => f \in w.dropped \cup w.lost

LEMMA JudgedAsSaid ==
    ASSUME NEW d, NEW c, NEW w, Filed(d, c, w, Leaves), Closed(w), Chosen(w),
           NEW v, NEW back, Restored(v, w, back)
    PROVE  /\ SaidOf(d, v) /\ Closed(v) /\ Words(d, c, v)
           /\ v.r.cp => d.cp
  <1>1. /\ \A f \in Fields : v.r.fact[f] = IF f \in back THEN "restored" ELSE w.r.fact[f]
        /\ v.r.answers = w.r.answers /\ v.r.cp = w.r.cp /\ v.r.over = w.r.over
        /\ v.r.defer = w.r.defer /\ w.r.marks \subseteq v.r.marks
        /\ back \subseteq Fields /\ \A f \in back : w.r.defer[f] = "none"
        /\ v.text = w.text /\ v.reask = w.reask /\ v.dropped = w.dropped \ back /\ v.lost = w.lost
    BY DEF Restored, Alike
  <1>2. \A f \in Fields : v.r.fact[f] \in Leaves
    BY <1>1 DEF Filed, At, Only, Leaves
  <1>3. v.r.fact["opt"] \in {"outside", "battery"} => v.r.marks \cap {"outside_options", "battery_unspoken"} # {}
    <2>1. v.r.fact["opt"] \in {"outside", "battery"} => v.r.fact["opt"] = w.r.fact["opt"]
      BY <1>1 DEF Fields
    <2> QED BY <1>1, <2>1 DEF Chosen
  <1>4. ~v.r.answers /\ (\E f \in Fields : v.r.fact[f] \notin {"none", "restored"}) => "non_answer" \in v.r.marks
    BY <1>1 DEF Filed, Doubted
  <1>5. \A f \in Fields : v.r.fact[f] # "none" => v.r.defer[f] = "none"
    BY <1>1 DEF Filed, Apart
  <1>6. \A f \in Fields : d.fact[f] # "none" /\ v.r.fact[f] = "none" => f \in v.dropped \cup v.lost
    BY <1>1 DEF Filed, At, Listed
  <1>7. Closed(v)
    BY <1>1 DEF Closed
  <1>8. Words(d, c, v)
    BY <1>1 DEF Filed, At, Words
  <1>9. v.r.cp => d.cp
    BY <1>1 DEF Filed, At, Follows
  <1> QED BY <1>2, <1>3, <1>4, <1>5, <1>6, <1>7, <1>8, <1>9 DEF SaidOf, Leaves

-----------------------------------------------------------------------------
(* The interviewer's turn: its invariant                                       *)

Stages == {"model", "stream", "envelope", "log", "checkpoint", "oath", "closing", "inversion", "guard", "sent", "failed"}

(* The first n sentences of the reply are with the applicant, the last one held.   *)
HandedOver(n) ==
    /\ n = 0 => heard = <<>> /\ pending = <<>>
    /\ n > 0 => /\ Len(heard) = n - 1 /\ pending = <<FirstText(draft, 1)[n]>>
                /\ \A i \in 1 .. n - 1 : heard[i] = FirstText(draft, 1)[i]

TurnType ==
    /\ stage \in Stages /\ Sound(draft) /\ calls \in Nat /\ spoken \in Nat
    /\ ask.agenda \subseteq Fields
    /\ heard \in Seq(Sentences) /\ pending \in Seq(Sentences)
    /\ buffered \in Reasons \cup {NoField}
    /\ lateFor \in Reminders \cup {NoField}

Silent == heard = <<>> /\ pending = <<>>
Listening == stage = "model" => Silent /\ buffered = NoField /\ spoken = 0 /\ lateFor = NoField

(* Only an object is spoken, sentence by sentence, and none that offers an oath.    *)
Speaking ==
    stage = "stream" =>
        /\ lateFor = NoField /\ buffered = NoField
        /\ spoken = 0 => Silent
        /\ spoken > 0 => /\ draft.json /\ draft.shape = "map" /\ spoken <= draft.size
                         /\ HandedOver(spoken - 1)
NoOathSaid == /\ \A i \in DOMAIN heard : ~heard[i].oath
              /\ \A i \in DOMAIN pending : ~pending[i].oath
Withheld == buffered \in Reasons \ {"oath_modification"} => Silent

(* A streamed reply no retry replaced was handed over in full, or up to an oath,     *)
(* or not at all.                                                               *)
Told ==
    stage \notin {"model", "stream"} /\ lateFor = NoField /\ ask.streamed =>
        /\ buffered = NoField => draft.size > 0 /\ HandedOver(draft.size)
        /\ buffered = "oath_modification" =>
              /\ pending = <<>> /\ Len(heard) < draft.size
              /\ \A i \in 1 .. Len(heard) : heard[i] = FirstText(draft, 1)[i]
        /\ draft.json \/ buffered \in Reasons \ {"oath_modification"}

(* Behind its refusal a checkpoint leaves nothing open, behind theirs no dates are   *)
(* inverted.                                                                     *)
CheckpointRead ==
    /\ stage \in {"oath", "closing", "inversion", "guard"} /\ draft.json /\ draft.cp
    /\ lateFor \notin {"oath", "closing", "inversion"}
    => open_nodes(draft) \subseteq refused_dates
DatesInOrder == stage = "guard" /\ draft.json => draft.fact["date"] # "inverted"

StreamInv == Listening /\ Speaking /\ NoOathSaid /\ Withheld /\ Told
InterviewInv == TurnType /\ StreamInv /\ CheckpointRead /\ DatesInOrder /\ InterviewHonest /\ SpokenStands

-----------------------------------------------------------------------------
(* What a refusal leaves of a reply.                                           *)

LEMMA Marked ==
    ASSUME NEW d, Sound(d), NEW g \in Refusals
    PROVE  LET e == mark_refused(g, d)
           IN  /\ Sound(e) /\ e.json = d.json /\ e.shape = d.shape /\ e.size = d.size /\ e.oath = d.oath
               /\ e.wrong = d.wrong /\ e.fact = d.fact /\ e.defer = d.defer /\ e.cp = d.cp
               /\ d.marks \subseteq e.marks /\ (d.json => g \in e.marks)
  <1> USE DEF Refusals
  <1>1. CASE ~d.json
    BY <1>1 DEF mark_refused
  <1>2. CASE d.json
    <2>1. d \in Answers
      BY DEF Sound
    <2>2. PICK m : m = d.marks \cup {g}
      OBVIOUS
    <2>3. m \in SUBSET MarkNames
      BY <2>1, <2>2 DEF Answers, MarkNames
    <2>4. PICK e : e = [d EXCEPT !.marks = m]
      OBVIOUS
    <2>5. /\ e \in Answers /\ e.json = d.json /\ e.shape = d.shape /\ e.size = d.size /\ e.oath = d.oath
          /\ e.wrong = d.wrong /\ e.fact = d.fact /\ e.defer = d.defer /\ e.cp = d.cp /\ e.marks = m
      BY <2>1, <2>3, <2>4 DEF Answers
    <2>6. Sound(e)
      BY <2>5 DEF Sound
    <2>7. e = mark_refused(g, d)
      BY <1>2, <2>2, <2>4 DEF mark_refused
    <2> QED BY <2>2, <2>5, <2>6, <2>7
  <1> QED BY <1>1, <1>2

LEMMA Kept ==
    ASSUME NEW d, Sound(d), NEW g \in Refusals
    PROVE  LET e == kept(g, d)
           IN  /\ Sound(e) /\ e.json = d.json /\ e.shape = d.shape /\ e.size = d.size /\ e.oath = d.oath
               /\ e.wrong = d.wrong /\ e.fact["id"] = d.fact["id"] /\ e.fact["opt"] = d.fact["opt"]
               /\ e.defer = d.defer /\ (e.cp => d.cp) /\ e.marks = d.marks
               /\ g # "inversion" => e.fact = d.fact
               /\ g = "checkpoint" /\ e.cp => ~checkpoint_contradicts_agenda(d)
               /\ g = "inversion" => e.fact["date"] = "none" /\ e.cp = d.cp
  <1> USE DEF Refusals
  <1>1. d \in Answers
    BY DEF Sound
  <1>2. CASE g = "checkpoint"
    <2>1. kept(g, d) = drop_contradicted_checkpoint(d)
      BY <1>2 DEF kept
    <2>2. CASE ~checkpoint_contradicts_agenda(d)
      BY <1>2, <2>1, <2>2 DEF drop_contradicted_checkpoint
    <2>3. CASE checkpoint_contradicts_agenda(d)
      <3>1. PICK e : e = [d EXCEPT !.cp = FALSE]
        OBVIOUS
      <3>2. /\ e \in Answers /\ e.json = d.json /\ e.shape = d.shape /\ e.size = d.size /\ e.oath = d.oath
            /\ e.wrong = d.wrong /\ e.fact = d.fact /\ e.defer = d.defer /\ ~e.cp /\ e.marks = d.marks
        BY <1>1, <3>1 DEF Answers
      <3>3. Sound(e)
        BY <3>2 DEF Sound
      <3>4. kept(g, d) = e
        BY <2>1, <2>3, <3>1 DEF drop_contradicted_checkpoint
      <3> QED BY <1>2, <3>2, <3>3, <3>4
    <2> QED BY <2>2, <2>3
  <1>3. CASE g = "inversion"
    <2>1. PICK facts : facts = [d.fact EXCEPT !["date"] = "none"]
      OBVIOUS
    <2>2. /\ facts \in [Fields -> FactNames] /\ facts["id"] = d.fact["id"] /\ facts["opt"] = d.fact["opt"]
          /\ facts["date"] = "none"
      BY <1>1, <2>1 DEF Answers, Fields, FactNames
    <2>3. PICK e : e = [d EXCEPT !.fact = facts]
      OBVIOUS
    <2>4. /\ e \in Answers /\ e.json = d.json /\ e.shape = d.shape /\ e.size = d.size /\ e.oath = d.oath
          /\ e.wrong = d.wrong /\ e.fact = facts /\ e.defer = d.defer /\ e.cp = d.cp /\ e.marks = d.marks
      BY <1>1, <2>2, <2>3 DEF Answers
    <2>5. Sound(e)
      BY <2>2, <2>4 DEF Sound
    <2>6. kept(g, d) = e
      BY <1>3, <2>1, <2>3 DEF kept, drop_inverted_dates
    <2> QED BY <1>3, <2>2, <2>4, <2>5, <2>6
  <1>4. CASE g \in {"oath", "closing"}
    <2>1. kept(g, d) = d
      BY <1>4 DEF kept
    <2> QED BY <1>4, <2>1
  <1> QED BY <1>2, <1>3, <1>4

(* The sentences of a reply depend on its length, its oath and its identifier.    *)
LEMMA SameSentences ==
    ASSUME NEW d, NEW e, e.size = d.size, e.oath = d.oath, e.wrong = d.wrong, e.fact["id"] = d.fact["id"]
    PROVE  FirstText(e, 1) = FirstText(d, 1)
  <1>1. \A i : Sentence(1, i, e) = Sentence(1, i, d)
    BY DEF Sentence
  <1>2. \A s : corrected(s, e) = corrected(s, d)
    BY DEF corrected
  <1> QED BY <1>1, <1>2 DEF FirstText

LEMMA OpenAsMuch ==
    ASSUME NEW d, NEW e, e.fact = d.fact, e.defer = d.defer
    PROVE  open_nodes(e) = open_nodes(d)
  <1>1. settled(e) = settled(d)
    BY DEF settled, settledFacts, deferral_stands
  <1>2. moot_nodes(e) = moot_nodes(d)
    BY DEF moot_nodes
  <1> QED BY <1>1, <1>2 DEF open_nodes

LEMMA DatesOpen ==
    ASSUME NEW d, NEW e, e.fact["id"] = d.fact["id"], e.fact["opt"] = d.fact["opt"], e.defer = d.defer
    PROVE  open_nodes(e) \subseteq open_nodes(d) \cup {"date"}
  <1>1. settled(d) \subseteq settled(e) \cup {"date"}
    BY DEF settled, settledFacts, deferral_stands, Fields
  <1>2. moot_nodes(e) = moot_nodes(d)
    BY DEF moot_nodes
  <1> QED BY <1>1, <1>2 DEF open_nodes

LEMMA PrefixByIndex ==
    ASSUME NEW S, NEW s \in Seq(S), NEW t \in Seq(S), Len(s) <= Len(t),
           \A i \in 1 .. Len(s) : s[i] = t[i]
    PROVE  IsPrefix(s, t)
  <1>1. PICK n : n = Len(s)
    OBVIOUS
  <1>2. n \in Nat /\ Len(t) \in Nat /\ n <= Len(t)
    BY <1>1
  <1>3. SubSeq(s, 1, n) = [i \in 1 .. n |-> s[i]]
    BY <1>1, <1>2
  <1>4. SubSeq(t, 1, n) = [i \in 1 .. n |-> t[i]]
    BY <1>1, <1>2
  <1>5. [i \in 1 .. n |-> s[i]] = [i \in 1 .. n |-> t[i]]
    BY <1>1
  <1> QED BY <1>1, <1>2, <1>3, <1>4, <1>5 DEF IsPrefix

-----------------------------------------------------------------------------
(* The interviewer's turn: every step keeps the invariant                       *)

(* Before the reply leaves, nothing is claimed of it but what is said aloud.      *)
LEMMA NothingSent ==
    ASSUME NoOathSaid', stage' # "sent"
    PROVE  InterviewHonest' /\ SpokenStands'
  <1>1. ~Sent'
    BY DEF Sent
  <1>2. InterviewHonest'
    BY <1>1 DEF InterviewHonest, FiledAsSaid, CheckpointHonest
  <1>3. SpokenStands'
    BY <1>1 DEF SpokenStands, NoOathSaid
  <1> QED BY <1>2, <1>3

LEMMA TurnStarts == ASSUME InterviewInit PROVE InterviewInv
  <1>1. TurnType
    <2>1. ask.agenda \in Agendas
      BY DEF InterviewInit
    <2>2. ask.agenda \subseteq Fields
      BY <2>1, InterviewAssumption
    <2>3. <<>> \in Seq(Sentences)
      OBVIOUS
    <2> QED BY <2>2, <2>3, CleanSound DEF InterviewInit, TurnType, Stages
  <1>2. StreamInv
    BY DEF InterviewInit, StreamInv, Listening, Speaking, NoOathSaid, Withheld, Told, Silent
  <1>3. CheckpointRead /\ DatesInOrder
    BY DEF InterviewInit, CheckpointRead, DatesInOrder
  <1>4. ~Sent
    BY DEF InterviewInit, Sent
  <1>5. InterviewHonest
    BY <1>4 DEF InterviewHonest, FiledAsSaid, CheckpointHonest
  <1>6. SpokenStands
    BY <1>2, <1>4 DEF SpokenStands, StreamInv, NoOathSaid
  <1> QED BY <1>1, <1>2, <1>3, <1>5, <1>6 DEF InterviewInv

LEMMA ModelKept == ASSUME InterviewInv, Model PROVE InterviewInv'
  <1>1. /\ stage = "model" /\ Silent /\ buffered = NoField /\ spoken = 0 /\ lateFor = NoField
        /\ ask.agenda \subseteq Fields /\ heard \in Seq(Sentences) /\ pending \in Seq(Sentences)
    BY DEF InterviewInv, TurnType, StreamInv, Listening, Model
  <1>2. UNCHANGED <<ask, heard, pending, buffered, spoken, lateFor>> /\ calls' = 1
    BY DEF Model
  <1>3. stage' = "stream" \/ (stage' = "envelope" /\ ~ask.streamed)
    BY DEF Model
  <1>4. Sound(draft')
    BY RepliesSound, InterviewAssumption DEF Model
  <1>5. TurnType'
    BY <1>1, <1>2, <1>3, <1>4 DEF TurnType, Stages
  <1>6. NoOathSaid' /\ Silent'
    BY <1>1, <1>2 DEF NoOathSaid, Silent
  <1>7. Listening' /\ Speaking' /\ Withheld'
    BY <1>1, <1>2, <1>3, <1>6 DEF Listening, Speaking, Withheld
  <1>8. Told'
    BY <1>1, <1>2, <1>3 DEF Told
  <1>9. CheckpointRead' /\ DatesInOrder'
    BY <1>3 DEF CheckpointRead, DatesInOrder
  <1>10. InterviewHonest' /\ SpokenStands'
    BY <1>3, <1>6, NothingSent
  <1> QED BY <1>5, <1>6, <1>7, <1>8, <1>9, <1>10 DEF InterviewInv, StreamInv

LEMMA BufferReason ==
    ASSUME NEW d
    PROVE  \/ buffer_reason(d) = NoField /\ d.json /\ d.shape = "map"
           \/ /\ buffer_reason(d) \in Reasons \ {"oath_modification"} /\ buffer_reason(d) # NoField
  <1>1. NoField \notin Reasons
    BY InterviewAssumption
  <1>2. CASE ask.oath
    BY <1>1, <1>2 DEF buffer_reason, Reasons
  <1>3. CASE ~ask.oath /\ (~d.json \/ d.shape # "map")
    BY <1>1, <1>3 DEF buffer_reason, Reasons
  <1>4. CASE ~ask.oath /\ d.json /\ d.shape = "map" /\ d.early
    BY <1>1, <1>4 DEF buffer_reason, Reasons
  <1>5. CASE ~ask.oath /\ d.json /\ d.shape = "map" /\ ~d.early
    BY <1>1, <1>5 DEF buffer_reason, Reasons
  <1> QED BY <1>2, <1>3, <1>4, <1>5

LEMMA ReplyStartKept == ASSUME InterviewInv, ReplyStart PROVE InterviewInv'
  <1>1. /\ stage = "stream" /\ spoken = 0 /\ buffered = NoField /\ lateFor = NoField /\ Silent
        /\ Sound(draft) /\ TurnType /\ NoOathSaid
    BY DEF InterviewInv, TurnType, StreamInv, Speaking, ReplyStart
  <1>2. UNCHANGED <<ask, draft, heard, pending, calls, lateFor>>
    BY DEF ReplyStart
  <1>3. NoOathSaid' /\ Silent'
    BY <1>1, <1>2 DEF NoOathSaid, Silent
  <1>4. NoField \notin Reasons
    BY InterviewAssumption
  <1>5. CASE buffer_reason(draft) # NoField
    <2>1. buffered' \in Reasons \ {"oath_modification"} /\ buffered' # NoField /\ stage' = "envelope" /\ spoken' = spoken
      BY <1>5, BufferReason DEF ReplyStart
    <2>2. TurnType'
      BY <1>1, <1>2, <2>1 DEF TurnType, Stages
    <2>3. Listening' /\ Speaking' /\ Withheld' /\ Told'
      BY <1>3, <2>1 DEF Listening, Speaking, Withheld, Told
    <2>4. CheckpointRead' /\ DatesInOrder'
      BY <2>1 DEF CheckpointRead, DatesInOrder
    <2>5. InterviewHonest' /\ SpokenStands'
      BY <1>3, <2>1, NothingSent
    <2> QED BY <1>3, <2>2, <2>3, <2>4, <2>5 DEF InterviewInv, StreamInv
  <1>6. CASE buffer_reason(draft) = NoField
    <2>1. spoken' = 1 /\ buffered' = NoField /\ stage' = "stream"
      BY <1>1, <1>6 DEF ReplyStart
    <2>2. draft.json /\ draft.shape = "map"
      BY <1>4, <1>6, BufferReason
    <2>3. 1 <= draft.size
      BY <1>1, <2>2 DEF Sound, Answers
    <2>4. TurnType'
      BY <1>1, <1>2, <2>1 DEF TurnType, Stages
    <2>5. Speaking'
      <3>1. HandedOver(0)'
        BY <1>3 DEF HandedOver, Silent
      <3> QED BY <1>1, <1>2, <2>1, <2>2, <2>3, <3>1 DEF Speaking
    <2>6. Listening' /\ Withheld' /\ Told'
      BY <1>3, <2>1 DEF Listening, Withheld, Told
    <2>7. CheckpointRead' /\ DatesInOrder'
      BY <2>1 DEF CheckpointRead, DatesInOrder
    <2>8. InterviewHonest' /\ SpokenStands'
      BY <1>3, <2>1, NothingSent
    <2> QED BY <1>3, <2>4, <2>5, <2>6, <2>7, <2>8 DEF InterviewInv, StreamInv
  <1> QED BY <1>5, <1>6

LEMMA SentenceKept == ASSUME InterviewInv, SentenceDone PROVE InterviewInv'
  <1>1. /\ stage = "stream" /\ spoken \in 1 .. draft.size
        /\ lateFor = NoField /\ buffered = NoField
        /\ draft.json /\ draft.shape = "map" /\ HandedOver(spoken - 1)
        /\ TurnType /\ NoOathSaid /\ Sound(draft)
    BY DEF InterviewInv, TurnType, StreamInv, Speaking, SentenceDone
  <1>2. UNCHANGED <<ask, draft, calls, lateFor>>
    BY DEF SentenceDone
  <1>3. PICK F : F = FirstText(draft, 1)
    OBVIOUS
  <1>4. /\ draft.size \in Nat /\ F \in Seq(Sentences) /\ Len(F) = draft.size
        /\ F[spoken] = corrected(Sentence(1, spoken, draft), draft)
        /\ (F[spoken].oath <=> draft.oath = spoken)
    <2>1. draft.size \in Nat
      BY <1>1 DEF Sound, Answers
    <2>2. F \in Seq(Sentences) /\ Len(F) = draft.size
      BY <1>1, <1>3, FirstSentences
    <2>3. F[spoken] = corrected(Sentence(1, spoken, draft), draft)
      BY <1>1, <1>3 DEF FirstText
    <2>4. corrected(Sentence(1, spoken, draft), draft).oath <=> draft.oath = spoken
      BY <1>1, FirstSentences
    <2> QED BY <2>1, <2>2, <2>3, <2>4, Zenon
  <1>5. heard \in Seq(Sentences) /\ pending \in Seq(Sentences) /\ F[spoken] \in Sentences
    BY <1>1, <1>4 DEF TurnType
  <1>6. PICK n : n = spoken - 1
    OBVIOUS
  <1>7. n \in 0 .. draft.size - 1 /\ n + 1 = spoken
    BY <1>1, <1>4, <1>6
  <1>8. PICK h : h = heard \o pending
    OBVIOUS
  <1>9. h \in Seq(Sentences) /\ Len(h) = n /\ \A i \in 1 .. n : h[i] = F[i]
    <2>1. CASE n = 0
      BY <1>1, <1>5, <1>6, <1>8, <2>1 DEF HandedOver
    <2>2. CASE n > 0
      <3>1. Len(heard) = n - 1 /\ pending = <<F[n]>> /\ \A i \in 1 .. n - 1 : heard[i] = F[i]
        BY <1>1, <1>3, <1>6, <2>2 DEF HandedOver
      <3>2. h \in Seq(Sentences) /\ Len(h) = n
        BY <1>5, <1>7, <1>8, <3>1
      <3>3. ASSUME NEW i \in 1 .. n PROVE h[i] = F[i]
        <4>1. CASE i = n
          BY <1>5, <1>7, <1>8, <3>1, <4>1
        <4>2. CASE i # n
          <5>1. i \in 1 .. n - 1
            BY <1>7, <4>2
          <5> QED BY <1>5, <1>7, <1>8, <3>1, <5>1
        <4> QED BY <4>1, <4>2
      <3> QED BY <3>2, <3>3
    <2> QED BY <1>7, <2>1, <2>2
  <1>10. \A i \in DOMAIN h : ~h[i].oath
    <2>1. \A i \in DOMAIN heard : ~heard[i].oath
      BY <1>1 DEF NoOathSaid
    <2>2. \A i \in DOMAIN pending : ~pending[i].oath
      BY <1>1 DEF NoOathSaid
    <2>3. SUFFICES ASSUME NEW i \in DOMAIN h PROVE ~h[i].oath
      OBVIOUS
    <2>4. (\E j \in DOMAIN heard : h[i] = heard[j]) \/ (\E j \in DOMAIN pending : h[i] = pending[j])
      <3>1. i \in 1 .. Len(heard) + Len(pending) /\ Len(heard) \in Nat /\ Len(pending) \in Nat
        BY <1>5, <1>8
      <3>2. CASE i <= Len(heard)
        BY <1>5, <1>8, <3>1, <3>2
      <3>3. CASE i > Len(heard)
        <4>1. i - Len(heard) \in DOMAIN pending /\ h[i] = pending[i - Len(heard)]
          BY <1>5, <1>8, <3>1, <3>3
        <4> QED BY <4>1
      <3> QED BY <3>1, <3>2, <3>3
    <2> QED BY <2>1, <2>2, <2>4, Zenon
  <1>11. (Sentence(1, spoken, draft)).oath <=> draft.oath = spoken
    BY DEF Sentence
  <1>12. NoField # "oath_modification"
    BY InterviewAssumption DEF Reasons
  <1>13. CASE draft.oath = spoken
    <2>1. buffered' = "oath_modification" /\ pending' = <<>> /\ stage' = "envelope" /\ heard' = h /\ spoken' = spoken
      BY <1>8, <1>11, <1>13 DEF SentenceDone
    <2>2. TurnType'
      BY <1>1, <1>2, <1>9, <2>1 DEF TurnType, Stages, Reasons
    <2>3. NoOathSaid'
      BY <1>10, <2>1 DEF NoOathSaid
    <2>4. Told'
      BY <1>1, <1>2, <1>3, <1>4, <1>7, <1>9, <1>12, <2>1 DEF Told
    <2>5. Listening' /\ Speaking' /\ Withheld'
      BY <2>1 DEF Listening, Speaking, Withheld
    <2>6. CheckpointRead' /\ DatesInOrder'
      BY <2>1 DEF CheckpointRead, DatesInOrder
    <2>7. InterviewHonest' /\ SpokenStands'
      BY <2>1, <2>3, NothingSent
    <2> QED BY <2>2, <2>3, <2>4, <2>5, <2>6, <2>7 DEF InterviewInv, StreamInv
  <1>14. CASE draft.oath # spoken
    <2>1. /\ heard' = h /\ pending' = <<F[spoken]>> /\ spoken' = spoken + 1 /\ buffered' = buffered
          /\ stage' = IF spoken = draft.size THEN "envelope" ELSE stage
      BY <1>4, <1>8, <1>11, <1>14 DEF SentenceDone, hold, corrected_before_release
    <2>2. pending' \in Seq(Sentences)
      BY <1>5, <2>1
    <2>3. TurnType'
      BY <1>1, <1>2, <1>9, <2>1, <2>2 DEF TurnType, Stages
    <2>4. NoOathSaid'
      <3>1. ~F[spoken].oath
        BY <1>4, <1>14
      <3>2. \A i \in DOMAIN pending' : pending'[i] = F[spoken]
        BY <2>1
      <3>3. \A i \in DOMAIN pending' : ~pending'[i].oath
        BY <3>1, <3>2
      <3> QED BY <1>10, <2>1, <3>3 DEF NoOathSaid
    <2>5. PICK m : m = spoken
      OBVIOUS
    <2>6. m > 0 /\ m \in 1 .. draft.size /\ spoken' - 1 = m
      BY <1>1, <2>1, <2>5
    <2>7. HandedOver(m)'
      BY <1>2, <1>3, <1>6, <1>9, <2>1, <2>5, <2>6 DEF HandedOver
    <2>8. Speaking'
      <3>1. stage' = "stream" => spoken # draft.size
        BY <2>1
      <3> QED BY <1>1, <1>2, <1>4, <2>1, <2>5, <2>6, <2>7, <3>1 DEF Speaking
    <2>9. Told'
      <3>1. stage' # "stream" => m = draft.size
        BY <1>1, <2>1, <2>5
      <3>2. buffered' = NoField /\ draft'.json
        BY <1>1, <1>2, <2>1
      <3> QED BY <1>2, <1>12, <2>6, <2>7, <3>1, <3>2 DEF Told
    <2>10. Withheld' /\ Listening'
      <3>1. NoField \notin Reasons
        BY InterviewAssumption
      <3> QED BY <1>1, <2>1, <3>1 DEF Withheld, Listening
    <2>11. stage' \in {"stream", "envelope"}
      BY <1>1, <2>1
    <2>12. CheckpointRead' /\ DatesInOrder'
      BY <2>11 DEF CheckpointRead, DatesInOrder
    <2>13. InterviewHonest' /\ SpokenStands'
      BY <2>4, <2>11, NothingSent
    <2> QED BY <2>3, <2>4, <2>8, <2>9, <2>10, <2>12, <2>13 DEF InterviewInv, StreamInv
  <1> QED BY <1>13, <1>14

(* Behind the stream nothing is said, and only a retry changes what was written.   *)
LEMMA Onward ==
    ASSUME InterviewInv, stage \notin {"model", "stream"}, stage' \in Stages \ {"model", "stream", "sent"},
           UNCHANGED <<ask, heard, pending, buffered, spoken>>, calls' \in Nat, Sound(draft'),
           lateFor' \in Reminders \cup {NoField},
           lateFor' = NoField => /\ lateFor = NoField /\ draft'.json = draft.json
                                 /\ draft'.size = draft.size /\ draft'.oath = draft.oath
                                 /\ draft'.wrong = draft.wrong /\ draft'.fact["id"] = draft.fact["id"],
           CheckpointRead', DatesInOrder'
    PROVE  InterviewInv'
  <1>1. TurnType'
    BY DEF InterviewInv, TurnType
  <1>2. NoOathSaid' /\ Withheld'
    BY DEF InterviewInv, StreamInv, NoOathSaid, Withheld, Silent
  <1>3. Listening' /\ Speaking'
    BY DEF Listening, Speaking
  <1>4. Told'
    <2>1. CASE lateFor' # NoField
      BY <2>1 DEF Told
    <2>2. CASE lateFor' = NoField
      <3>1. PICK d, e : d = draft /\ e = draft'
        OBVIOUS
      <3>2. FirstText(e, 1) = FirstText(d, 1) /\ e.size = d.size /\ e.json = d.json
        BY <2>2, <3>1, SameSentences
      <3>3. /\ FirstText(draft', 1) = FirstText(draft, 1) /\ draft'.size = draft.size
            /\ draft'.json = draft.json
        BY <3>1, <3>2
      <3>4. Told
        BY DEF InterviewInv, StreamInv
      <3> QED BY <2>2, <3>3, <3>4 DEF Told, HandedOver
    <2> QED BY <2>1, <2>2
  <1>5. InterviewHonest' /\ SpokenStands'
    BY <1>2, NothingSent
  <1> QED BY <1>1, <1>2, <1>3, <1>4, <1>5 DEF InterviewInv, StreamInv

LEMMA EnvelopeKept == ASSUME InterviewInv, Envelope PROVE InterviewInv'
  <1>1. stage = "envelope" /\ stage' = "log" /\ UNCHANGED <<ask, heard, pending, buffered, spoken>>
    BY DEF Envelope
  <1>2. CheckpointRead' /\ DatesInOrder'
    BY <1>1 DEF CheckpointRead, DatesInOrder
  <1>3. TurnType
    BY DEF InterviewInv
  <1>4. NoField \notin Reminders
    BY InterviewAssumption
  <1>5. CASE UNCHANGED <<draft, calls, lateFor>>
    BY <1>1, <1>2, <1>3, <1>5, Onward DEF TurnType, Stages
  <1>6. CASE ~draft.json
    <2>1. PICK d \in ModelReplies(RetryWrong) :
              /\ calls' = calls + 1
              /\ draft' = IF d.json THEN d ELSE draft
              /\ lateFor' = IF d.json THEN "envelope" ELSE lateFor
      BY <1>6 DEF Envelope
    <2>2. Sound(d)
      BY RepliesSound, InterviewAssumption
    <2>3. Sound(draft') /\ calls' \in Nat
      BY <1>3, <2>1, <2>2 DEF TurnType
    <2>4. CASE d.json
      <3>1. lateFor' \in Reminders
        BY <2>1, <2>4 DEF Reminders
      <3> QED BY <1>1, <1>2, <1>4, <2>3, <3>1, Onward DEF Stages
    <2>5. CASE ~d.json
      <3>1. draft' = draft /\ lateFor' = lateFor
        BY <2>1, <2>5
      <3> QED BY <1>1, <1>2, <1>3, <2>3, <3>1, Onward DEF TurnType, Stages
    <2> QED BY <2>4, <2>5
  <1> QED BY <1>5, <1>6 DEF Envelope

LEMMA LogKept == ASSUME InterviewInv, LogReply PROVE InterviewInv'
  <1>1. /\ stage = "log" /\ stage' = "checkpoint"
        /\ UNCHANGED <<ask, draft, heard, pending, buffered, spoken, calls, lateFor>>
    BY DEF LogReply
  <1>2. CheckpointRead' /\ DatesInOrder'
    BY <1>1 DEF CheckpointRead, DatesInOrder
  <1>3. TurnType
    BY DEF InterviewInv
  <1> QED BY <1>1, <1>2, <1>3, Onward DEF TurnType, Stages

LEMMA RetryFailsKept == ASSUME InterviewInv, RetryFails PROVE InterviewInv'
  <1>1. /\ stage \in {"checkpoint", "oath", "closing", "inversion"} /\ stage' = "failed"
        /\ UNCHANGED <<ask, draft, heard, pending, buffered, spoken, calls, lateFor>>
    BY DEF RetryFails, Refusals
  <1>2. CheckpointRead' /\ DatesInOrder'
    BY <1>1 DEF CheckpointRead, DatesInOrder
  <1>3. TurnType
    BY DEF InterviewInv
  <1> QED BY <1>1, <1>2, <1>3, Onward DEF TurnType, Stages

LEMMA NextRefusal ==
    ASSUME NEW g \in Refusals
    PROVE  After(g) \in {"oath", "closing", "inversion", "guard"} /\ (After(g) = "guard" <=> g = "inversion")
  BY DEF Refusals, After

(* What the refusals do to a checkpoint and to inverted dates.                  *)
LEMMA RefusalReads ==
    ASSUME InterviewInv, NEW g \in Refusals, Refusal(g)
    PROVE  /\ CheckpointRead' /\ DatesInOrder' /\ Sound(draft')
           /\ lateFor' = g \/ (/\ lateFor' = lateFor /\ draft'.json = draft.json
                               /\ draft'.size = draft.size /\ draft'.oath = draft.oath
                               /\ draft'.wrong = draft.wrong /\ draft'.fact["id"] = draft.fact["id"])
  <1> USE DEF Refusals
  <1>1. /\ stage = g /\ stage' = After(g) /\ ask' = ask /\ Sound(draft) /\ CheckpointRead
    BY DEF Refusal, InterviewInv, TurnType
  <1>2. /\ stage' = "guard" <=> g = "inversion"
        /\ stage' \in {"oath", "closing", "inversion", "guard"}
    BY <1>1, NextRefusal
  <1>3. CASE ~refused(g, draft)
    <2>1. UNCHANGED <<draft, lateFor>>
      BY <1>3 DEF Refusal
    <2>2. DatesInOrder'
      <3>1. g = "inversion" => ~date_inversions(draft)
        BY <1>3 DEF refused
      <3> QED BY <1>2, <2>1, <3>1 DEF DatesInOrder, date_inversions
    <2>3. CheckpointRead'
      <3>1. CASE g = "checkpoint"
        <4>1. draft.json /\ draft.cp => open_nodes(draft) = {}
          BY <1>3, <3>1 DEF refused, checkpoint_is_refused, checkpoint_contradicts_agenda
        <4> QED BY <1>1, <2>1, <4>1 DEF CheckpointRead, open_nodes
      <3>2. CASE g # "checkpoint"
        BY <1>1, <1>2, <2>1, <3>2 DEF CheckpointRead, open_nodes, refused_dates
      <3> QED BY <3>1, <3>2
    <2> QED BY <1>1, <2>1, <2>2, <2>3
  <1>4. CASE refused(g, draft)
    <2>1. PICK d \in ModelReplies(RetryWrong) :
              /\ draft' = mark_refused(g, IF resolves(g, d) THEN d ELSE kept(g, draft))
              /\ lateFor' = IF resolves(g, d) THEN g ELSE lateFor
      BY <1>4 DEF Refusal
    <2>2. Sound(d)
      BY RepliesSound, InterviewAssumption
    <2>3. CASE resolves(g, d)
      <3>1. PICK e : e = mark_refused(g, d)
        OBVIOUS
      <3>2. draft' = e /\ lateFor' = g
        BY <2>1, <2>3, <3>1
      <3>3. Sound(e) /\ e.json = d.json /\ e.fact = d.fact /\ e.defer = d.defer /\ e.cp = d.cp
        BY <2>2, <3>1, Marked
      <3>4. DatesInOrder'
        <4>1. g = "inversion" => ~date_inversions(d)
          BY <2>3 DEF resolves, refused
        <4> QED BY <1>2, <3>2, <3>3, <4>1 DEF DatesInOrder, date_inversions
      <3>5. CheckpointRead'
        <4>1. CASE g = "checkpoint"
          <5>1. d.json /\ d.cp => open_nodes(d) = {}
            BY <2>3, <4>1 DEF resolves, refused, checkpoint_is_refused, checkpoint_contradicts_agenda
          <5>2. e.json /\ e.cp => open_nodes(e) = {}
            BY <3>3, <5>1, OpenAsMuch
          <5> QED BY <1>1, <3>2, <5>2 DEF CheckpointRead, open_nodes
        <4>2. CASE g # "checkpoint"
          BY <3>2, <4>2 DEF CheckpointRead
        <4> QED BY <4>1, <4>2
      <3> QED BY <3>2, <3>3, <3>4, <3>5
    <2>4. CASE ~resolves(g, d)
      <3>1. PICK k : k = kept(g, draft)
        OBVIOUS
      <3>2. /\ Sound(k) /\ k.json = draft.json /\ k.size = draft.size /\ k.oath = draft.oath
            /\ k.wrong = draft.wrong /\ k.fact["id"] = draft.fact["id"] /\ k.fact["opt"] = draft.fact["opt"]
            /\ k.defer = draft.defer /\ (k.cp => draft.cp) /\ k.marks = draft.marks
            /\ g # "inversion" => k.fact = draft.fact
            /\ g = "checkpoint" /\ k.cp => ~checkpoint_contradicts_agenda(draft)
            /\ g = "inversion" => k.fact["date"] = "none" /\ k.cp = draft.cp
        BY <1>1, <3>1, Kept
      <3>3. PICK e : e = mark_refused(g, k)
        OBVIOUS
      <3>4. /\ Sound(e) /\ e.json = k.json /\ e.size = k.size /\ e.oath = k.oath
            /\ e.wrong = k.wrong /\ e.fact = k.fact /\ e.defer = k.defer /\ e.cp = k.cp
            /\ k.marks \subseteq e.marks /\ (k.json => g \in e.marks)
        BY <3>2, <3>3, Marked
      <3>5. draft' = e /\ lateFor' = lateFor
        BY <2>1, <2>4, <3>1, <3>3
      <3>6. DatesInOrder'
        BY <1>2, <3>2, <3>4, <3>5 DEF DatesInOrder
      <3>7. CheckpointRead'
        <4>1. SUFFICES ASSUME e.json, e.cp, lateFor \notin {"oath", "closing", "inversion"}
                       PROVE  open_nodes(e) \subseteq IF "inversion" \in e.marks THEN {"date"} ELSE {}
          BY <1>1, <3>5 DEF CheckpointRead, refused_dates, open_nodes
        <4>2. CASE g = "checkpoint"
          <5>1. open_nodes(draft) = {}
            BY <3>2, <3>4, <4>1, <4>2 DEF checkpoint_contradicts_agenda
          <5>2. open_nodes(e) = open_nodes(draft)
            BY <3>2, <3>4, <4>2, OpenAsMuch
          <5> QED BY <5>1, <5>2
        <4>3. CASE g # "checkpoint"
          <5>1. open_nodes(draft) \subseteq refused_dates
            BY <1>1, <3>2, <3>4, <4>1, <4>3 DEF CheckpointRead
          <5>2. CASE g = "inversion"
            <6>1. open_nodes(e) \subseteq open_nodes(draft) \cup {"date"}
              BY <3>2, <3>4, DatesOpen
            <6>2. "inversion" \in e.marks
              BY <3>2, <3>4, <4>1, <5>2
            <6> QED BY <5>1, <6>1, <6>2 DEF refused_dates
          <5>3. CASE g # "inversion"
            <6>1. open_nodes(e) = open_nodes(draft)
              BY <3>2, <3>4, <5>3, OpenAsMuch
            <6> QED BY <3>2, <3>4, <5>1, <6>1 DEF refused_dates
          <5> QED BY <5>2, <5>3
        <4> QED BY <4>2, <4>3
      <3> QED BY <3>2, <3>4, <3>5, <3>6, <3>7
    <2> QED BY <2>3, <2>4
  <1> QED BY <1>3, <1>4

LEMMA RefusalKept ==
    ASSUME InterviewInv, NEW g \in Refusals, Refusal(g)
    PROVE  InterviewInv'
  <1> USE DEF Refusals
  <1>1. stage = g /\ stage' = After(g) /\ UNCHANGED <<ask, heard, pending, buffered, spoken>>
    BY DEF Refusal
  <1>2. stage' \in Stages \ {"model", "stream", "sent"}
    BY <1>1, NextRefusal DEF Stages
  <1>3. TurnType
    BY DEF InterviewInv
  <1>4. calls' \in Nat
    BY <1>3 DEF Refusal, TurnType
  <1>5. /\ CheckpointRead' /\ DatesInOrder' /\ Sound(draft')
        /\ lateFor' = g \/ (/\ lateFor' = lateFor /\ draft'.json = draft.json
                            /\ draft'.size = draft.size /\ draft'.oath = draft.oath
                            /\ draft'.wrong = draft.wrong /\ draft'.fact["id"] = draft.fact["id"])
    BY RefusalReads
  <1>6. g \in Reminders /\ g # NoField
    BY InterviewAssumption DEF Reminders
  <1> QED BY <1>1, <1>2, <1>3, <1>4, <1>5, <1>6, Onward DEF TurnType

(* The reply that leaves, made of reply d by the guard and the judge.            *)
LEMMA GuardLeaves ==
    ASSUME NEW d, Sound(d), d.json => d.fact["date"] # "inverted", NEW c \in Nat, NEW backed, NEW w,
           w = restore_supported_carried_facts(mark_unsupported_enum_facts(
                   guard_response_text(Work(d, c)), backed), backed)
    PROVE  /\ w.r.json = d.json /\ w.text \in Seq(Sentences)
           /\ d.json => SaidOf(d, w) /\ Closed(w) /\ Words(d, c, w) /\ (w.r.cp => d.cp)
  <1>1. PICK g : g = guard_response_text(Work(d, c))
    OBVIOUS
  <1>2. w = restore_supported_carried_facts(mark_unsupported_enum_facts(g, backed), backed)
    BY <1>1
  <1>3. CASE ~d.json
    <2>1. g = Work(d, c)
      BY <1>1, <1>3 DEF guard_response_text, Work
    <2>2. g \in Works /\ g.r = d
      BY <2>1, FirstSentences DEF Work, Works, Sound
    <2>3. w \in Works /\ \E back : Restored(w, g, back)
      BY <1>2, <2>2, Judged
    <2>4. w.r.json = d.json /\ w.text \in Seq(Sentences)
      BY <2>2, <2>3 DEF Restored, Alike, Works
    <2> QED BY <1>3, <2>4
  <1>4. CASE d.json
    <2>1. Filed(d, c, g, Leaves) /\ Closed(g) /\ Chosen(g)
      BY <1>1, <1>4, ReplyGuarded
    <2>2. g \in Works /\ g.r.json = d.json
      BY <2>1 DEF Filed, At, Follows
    <2>3. PICK back : w \in Works /\ Restored(w, g, back)
      BY <1>2, <2>2, Judged
    <2>4. SaidOf(d, w) /\ Closed(w) /\ Words(d, c, w) /\ (w.r.cp => d.cp)
      BY <2>1, <2>3, JudgedAsSaid
    <2>5. w.r.json = d.json /\ w.text \in Seq(Sentences)
      BY <2>2, <2>3 DEF Restored, Alike, Works
    <2> QED BY <2>4, <2>5
  <1> QED BY <1>3, <1>4

LEMMA GuardKept == ASSUME InterviewInv, Guard PROVE InterviewInv'
  <1>1. /\ stage = "guard" /\ stage' = "sent"
        /\ UNCHANGED <<ask, draft, heard, pending, buffered, spoken, calls, lateFor>>
    BY DEF Guard
  <1>2. TurnType /\ StreamInv /\ CheckpointRead /\ DatesInOrder
    BY DEF InterviewInv
  <1>3. PICK backed \in {{}, Fields} :
             LET c == IF lateFor = NoField THEN 1 ELSE calls
                 g == guard_response_text(Work(draft, c))
                 w == restore_supported_carried_facts(mark_unsupported_enum_facts(g, backed), backed)
                 stale == spoken_prefix_stale(w.text)
             IN  env' = [w |-> w, minted |-> draft.fact, stale |-> stale,
                         held |-> IF stale \/ buffered # NoField THEN <<>> ELSE pending]
    BY DEF Guard
  <1>4. PICK c : c = IF lateFor = NoField THEN 1 ELSE calls
    OBVIOUS
  <1>5. c \in Nat
    BY <1>2, <1>4 DEF TurnType
  <1>6. PICK w : w = restore_supported_carried_facts(
                        mark_unsupported_enum_facts(guard_response_text(Work(draft, c)), backed), backed)
    OBVIOUS
  <1>7. PICK stale \in BOOLEAN : stale = spoken_prefix_stale(w.text)
    BY DEF spoken_prefix_stale
  <1>8. PICK e : e = [w |-> w, minted |-> draft.fact, stale |-> stale,
                      held |-> IF stale \/ buffered # NoField THEN <<>> ELSE pending]
    OBVIOUS
  <1>9. env' = e
    BY <1>3, <1>4, <1>6, <1>7, <1>8, Zenon
  <1>10. /\ e.w = w /\ e.minted = draft.fact
         /\ e.held = IF stale \/ buffered # NoField THEN <<>> ELSE pending
         /\ e.stale <=> stale
    BY <1>8
  <1>11. PICK d : d = draft
    OBVIOUS
  <1>12. Sound(d) /\ (d.json => d.fact["date"] # "inverted")
    BY <1>1, <1>2, <1>11 DEF TurnType, DatesInOrder
  <1>13. /\ w.r.json = d.json /\ w.text \in Seq(Sentences)
         /\ d.json => SaidOf(d, w) /\ Closed(w) /\ Words(d, c, w) /\ (w.r.cp => d.cp)
    <2>1. w = restore_supported_carried_facts(mark_unsupported_enum_facts(
                  guard_response_text(Work(d, c)), backed), backed)
      BY <1>6, <1>11
    <2> QED BY <1>5, <1>12, <2>1, GuardLeaves
  <1>14. Sent' /\ Out' = w.r /\ env'.w = w /\ env'.minted = d.fact
    BY <1>1, <1>9, <1>10, <1>11 DEF Sent, Out
  <1>15. FiledAsSaid'
    <2>1. w.r.json => SaidOf(d, w)
      BY <1>13
    <2> QED BY <1>14, <2>1 DEF FiledAsSaid, SaidOf
  <1>16. CheckpointHonest'
    <2>1. SUFFICES ASSUME w.r.json
                   PROVE  /\ w.r.over => ask.agenda = {}
                          /\ w.r.cp /\ lateFor \notin {"oath", "closing", "inversion"} =>
                               open_nodes(w.r) \subseteq settled(d) \cup moot_nodes(d) \cup refused_dates
      BY <1>1, <1>11, <1>14 DEF CheckpointHonest, open_nodes, refused_dates
    <2>2. w.r.over => ask.agenda = {}
      BY <1>13, <2>1 DEF Closed
    <2>3. ASSUME w.r.cp, lateFor \notin {"oath", "closing", "inversion"}
          PROVE  open_nodes(w.r) \subseteq settled(d) \cup moot_nodes(d) \cup refused_dates
      <3>1. open_nodes(d) \subseteq refused_dates
        BY <1>1, <1>2, <1>11, <1>13, <2>1, <2>3 DEF CheckpointRead
      <3> QED BY <3>1 DEF open_nodes
    <2> QED BY <2>2, <2>3
  <1>17. TurnType' /\ StreamInv'
    <2>1. TurnType'
      BY <1>1, <1>2 DEF TurnType, Stages
    <2>2. NoOathSaid' /\ Withheld'
      BY <1>1, <1>2 DEF StreamInv, NoOathSaid, Withheld, Silent
    <2>3. Listening' /\ Speaking'
      BY <1>1 DEF Listening, Speaking
    <2>4. Told'
      BY <1>1, <1>2 DEF StreamInv, Told, HandedOver
    <2> QED BY <2>1, <2>2, <2>3, <2>4 DEF StreamInv
  <1>18. CheckpointRead' /\ DatesInOrder'
    BY <1>1 DEF CheckpointRead, DatesInOrder
  <1>19. SpokenStands'
    <2>1. PICK h, p, b : h = heard /\ p = pending /\ b = buffered
      OBVIOUS
    <2>2. PICK F : F = FirstText(d, 1)
      OBVIOUS
    <2>3. /\ h \in Seq(Sentences) /\ p \in Seq(Sentences) /\ w.text \in Seq(Sentences)
          /\ F \in Seq(Sentences) /\ Len(F) = d.size /\ d.size \in Nat
      <3>1. d.size \in Nat
        BY <1>12 DEF Sound, Answers
      <3>2. F \in Seq(Sentences) /\ Len(F) = d.size
        BY <1>12, <2>2, FirstSentences
      <3>3. h \in Seq(Sentences) /\ p \in Seq(Sentences)
        BY <1>2, <2>1 DEF TurnType
      <3> QED BY <1>13, <3>1, <3>2, <3>3
    <2>4. stale <=> (h # <<>> /\ ~IsPrefix(h, w.text))
      BY <1>7, <2>1 DEF spoken_prefix_stale
    <2>5. b \in Reasons \ {"oath_modification"} => h = <<>> /\ p = <<>>
      BY <1>2, <2>1 DEF StreamInv, Withheld, Silent
    <2>6. NoField \notin Reasons /\ b \in Reasons \cup {NoField}
      BY <1>2, <2>1, InterviewAssumption DEF TurnType
    <2>7. ASSUME ask.streamed, lateFor = NoField
          PROVE  /\ b = NoField => /\ d.size > 0 /\ p = <<F[d.size]>> /\ Len(h) = d.size - 1
                                   /\ \A i \in 1 .. d.size - 1 : h[i] = F[i]
                 /\ b = "oath_modification" => /\ p = <<>> /\ Len(h) < d.size
                                               /\ \A i \in 1 .. Len(h) : h[i] = F[i]
                 /\ d.json \/ b \in Reasons \ {"oath_modification"}
                 /\ c = 1
      BY <1>1, <1>2, <1>4, <1>11, <2>1, <2>2, <2>7 DEF StreamInv, Told, HandedOver
    <2>8. ASSUME ask.streamed, lateFor = NoField, e.held # <<>>, w.text # <<>>
          PROVE  h \o e.held = w.text \/ \E i \in DOMAIN w.text : w.text[i].call = 0
      <3>1. b = NoField /\ e.held = p
        BY <1>10, <2>1, <2>8
      <3>2. d.json /\ Words(d, 1, w)
        BY <1>13, <2>6, <2>7, <2>8, <3>1
      <3>3. w.text = F \/ \E i \in DOMAIN w.text : w.text[i].call = 0
        BY <2>2, <2>8, <3>2 DEF Words
      <3>4. h \o p = F
        <4>1. d.size > 0 /\ p = <<F[d.size]>> /\ Len(h) = d.size - 1 /\ \A i \in 1 .. d.size - 1 : h[i] = F[i]
          BY <2>7, <2>8, <3>1
        <4>2. PICK hp : hp = h \o p
          OBVIOUS
        <4>3. hp \in Seq(Sentences) /\ Len(hp) = d.size
          BY <2>3, <4>1, <4>2
        <4>4. \A i \in 1 .. d.size : hp[i] = F[i]
          <5>1. SUFFICES ASSUME NEW i \in 1 .. d.size PROVE hp[i] = F[i]
            OBVIOUS
          <5>2. CASE i = d.size
            <6>1. PICK x : x = F[d.size]
              OBVIOUS
            <6>2. p = <<x>> /\ d.size = Len(h) + 1
              BY <2>3, <4>1, <6>1
            <6>3. (h \o <<x>>)[Len(h) + 1] = x
              BY <2>3
            <6> QED BY <4>2, <5>2, <6>1, <6>2, <6>3
          <5>3. CASE i # d.size
            <6>1. i \in 1 .. d.size - 1
              BY <2>3, <5>3
            <6> QED BY <2>3, <4>1, <4>2, <6>1
          <5> QED BY <5>2, <5>3
        <4>5. hp = F
          BY <2>3, <4>3, <4>4
        <4> QED BY <4>2, <4>5
      <3> QED BY <3>1, <3>3, <3>4
    <2>9. ASSUME ask.streamed, lateFor = NoField, w.reask = NoField, h # <<>>, d.shape = "map"
          PROVE  ~stale
      <3>1. b \notin Reasons \ {"oath_modification"}
        BY <2>5, <2>9
      <3>2. d.json /\ Words(d, 1, w)
        BY <1>13, <2>7, <2>9, <3>1
      <3>3. Len(w.text) = d.size /\ \A i \in 1 .. d.size - 1 : w.text[i] = F[i]
        BY <2>2, <2>9, <3>2 DEF Words
      <3>4. Len(h) < d.size /\ \A i \in 1 .. Len(h) : h[i] = F[i]
        BY <2>3, <2>6, <2>7, <2>9, <3>1
      <3>5. Len(h) \in Nat
        BY <2>3
      <3>6. \A i \in 1 .. Len(h) : i \in 1 .. d.size - 1
        BY <2>3, <3>4, <3>5
      <3>7. \A i \in 1 .. Len(h) : h[i] = w.text[i]
        BY <3>3, <3>4, <3>6
      <3>8. IsPrefix(h, w.text)
        <4>1. Len(h) <= Len(w.text)
          BY <2>3, <3>3, <3>4, <3>5
        <4> QED BY <2>3, <3>7, <4>1, PrefixByIndex
      <3> QED BY <2>4, <3>8, Zenon
    <2>10. \A i \in DOMAIN h : ~h[i].oath
      BY <1>2, <2>1 DEF StreamInv, NoOathSaid
    <2>11. e.stale \/ IsPrefix(h, w.text) \/ h = <<>>
      BY <1>10, <2>4
    <2>12. b \in {"malformed", "reply_before_keys", "checkpoint_refused", "oath_node_on_agenda"} => h = <<>>
      BY <2>5 DEF Reasons
    <2>13. heard' = h /\ buffered' = b /\ draft' = d /\ lateFor' = lateFor /\ ask' = ask
      BY <1>1, <1>11, <2>1
    <2>14. ask.streamed /\ lateFor = NoField /\ w.reask = NoField /\ h # <<>> /\ d.shape = "map" => ~e.stale
      BY <1>10, <2>9
    <2> QED BY <1>9, <1>10, <2>8, <2>10, <2>11, <2>12, <2>13, <2>14 DEF SpokenStands
  <1> QED BY <1>15, <1>16, <1>17, <1>18, <1>19 DEF InterviewInv, InterviewHonest

LEMMA InterviewStep == ASSUME InterviewInv, [InterviewNext]_interviewVars PROVE InterviewInv'
  <1>1. CASE Model
    BY <1>1, ModelKept
  <1>2. CASE ReplyStart
    BY <1>2, ReplyStartKept
  <1>3. CASE SentenceDone
    BY <1>3, SentenceKept
  <1>4. CASE Envelope
    BY <1>4, EnvelopeKept
  <1>5. CASE LogReply
    BY <1>5, LogKept
  <1>6. CASE RetryFails
    BY <1>6, RetryFailsKept
  <1>7. CASE Guard
    BY <1>7, GuardKept
  <1>8. CASE \E g \in Refusals : Refusal(g)
    BY <1>8, RefusalKept
  <1>9. CASE UNCHANGED interviewVars
    BY <1>9 DEF interviewVars, InterviewInv, TurnType, StreamInv, Listening, Speaking, NoOathSaid, Withheld, Told,
                Silent, HandedOver, CheckpointRead, DatesInOrder, open_nodes, refused_dates, InterviewHonest,
                FiledAsSaid, CheckpointHonest, SpokenStands, Sent, Out
  <1> QED BY <1>1, <1>2, <1>3, <1>4, <1>5, <1>6, <1>7, <1>8, <1>9 DEF InterviewNext

(* Whatever and however much is wrong with the replies of the model, and whatever    *)
(* agendas are open, what the interviewer files was said, and what she calls          *)
(* finished is.                                                                  *)
THEOREM InterviewIsHonest == InterviewSpec => []InterviewHonest
  <1>1. InterviewInit => InterviewInv
    BY TurnStarts
  <1>2. InterviewInv /\ [InterviewNext]_interviewVars => InterviewInv'
    BY InterviewStep
  <1>3. InterviewInv => InterviewHonest
    BY DEF InterviewInv
  <1> QED BY <1>1, <1>2, <1>3, PTL DEF InterviewSpec

(* The same for what the applicant hears of a reply still being written.          *)
THEOREM SpokenWordsStand == InterviewSpec => []SpokenStands
  <1>1. InterviewInit => InterviewInv
    BY TurnStarts
  <1>2. InterviewInv /\ [InterviewNext]_interviewVars => InterviewInv'
    BY InterviewStep
  <1>3. InterviewInv => SpokenStands
    BY DEF InterviewInv
  <1> QED BY <1>1, <1>2, <1>3, PTL DEF InterviewSpec
=============================================================================
