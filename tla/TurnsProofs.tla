----------------------------- MODULE TurnsProofs -----------------------------
(***************************************************************************)
(* Proofs about a turn and its resends (Turns): for any number of sends, any *)
(* mix of transports and any number of restarts, what a turn id and a        *)
(* generation id promise holds until one of the named slips.                 *)
(***************************************************************************)
EXTENDS Turns, FiniteSetTheorems, TLAPS

Labels   == {"idle", "asked", "read"} \cup Running \cup Over
LocalSet == [pc : Labels, kind : Kinds \cup {None}, seen : {None, "done", "failed"},
             outcome : {None, "done", "failed", "refused", "crash"}]

(* What a handler's locals say of each other.                                   *)
LocalsFit(x) ==
    /\ x \in LocalSet
    /\ x.kind = None <=> x.pc \in {"idle"} \cup Over
    /\ x.outcome # None <=> x.pc \in {"gstore", "after", "storing"}
    /\ x.pc \in {"asked", "read", "storing"} => x.kind.tid
    /\ x.pc \in {"gasked", "gread", "gstart", "gstore"} => x.kind.build
    /\ x.pc = "storing" => x.outcome \in {"done", "failed"}

ReqsFit == req \in [Requests -> LocalSet] /\ \A r \in Requests : LocalsFit(req[r])

WorldFits ==
    /\ file \in {"none", "staged", "purged"} /\ shown \in {None, "done", "failed"}
    /\ swept \in BOOLEAN /\ restarts \in 0..MaxRestarts

(* A request that runs the turn id.                                             *)
Runs(r) == Live(r) /\ req[r].kind.tid

(* The turn id: whoever runs it is the one registered, until its answer is about *)
(* to be stored; and only then is the entry gone before its request is.          *)
TurnIdHeld ==
    /\ flight \in [by : Requests, old : BOOLEAN] \cup {None}
    /\ chat \in {None, "done", "failed"} /\ slip \in {"none", "valve", "race", "released"}
    /\ flight # None => /\ Runs(flight.by) \/ req[flight.by].pc \in {"unopened", "cut", "streamed"}
                        /\ req[flight.by].pc # "storing"
    /\ slip = "none" =>
        /\ \A r, s \in Requests : Runs(r) /\ Runs(s) => r = s
        /\ \A r \in Requests : Runs(r) => /\ chat = None
                                          /\ req[r].pc = "storing" \/ (flight # None /\ flight.by = r)

(* The generation id: one build at a time and none beside a done one; a row that *)
(* says running is somebody's.                                                  *)
Holds(r) == Building(r) \/ req[r].pc \in {"unopened", "stuck", "lost"}

GenerationHeld ==
    /\ gflight \in Requests \cup {None} /\ gslip \in {"none", "race", "unregistered", "swept"}
    /\ gen \in [status : {None, "running", "done", "failed"}, acked : BOOLEAN]
    /\ swept /\ gen.status = "running" => \E r \in Requests : Holds(r)
    /\ gslip = "none" =>
        /\ \A r, s \in Requests : Building(r) /\ Building(s) => r = s
        /\ gen.status = "done" => \A r \in Requests : ~Building(r)

TurnsInv == ReqsFit /\ WorldFits /\ TurnIdHeld /\ GenerationHeld

-----------------------------------------------------------------------------
(* A handler's step gives it these locals and leaves the others theirs.          *)
Moves(r, p, k, s, o) ==
    /\ req' \in [Requests -> LocalSet] /\ \A q \in Requests : q # r => req'[q] = req[q]
    /\ req'[r].pc = p /\ req'[r].kind = k /\ req'[r].seen = s /\ req'[r].outcome = o

(* No kind of request, and no status, is the value for nothing.                    *)
LEMMA KindsAre ==
    /\ None \notin Kinds /\ None \notin Requests /\ None \notin {"running", "done", "failed", "refused", "crash"}
    /\ \A k \in Kinds : k \in Kind /\ (k.build => k.via \in {"json", "sse"})
  BY TurnsAssumption DEF Kind

(* The three ways a handler's locals are rewritten.                              *)
LEMMA GotoMoves ==
    ASSUME ReqsFit, NEW r \in Requests, NEW label \in Labels, Goto(r, label)
    PROVE  Moves(r, label, req[r].kind, None, req[r].outcome)
  <1>1. req[r] \in LocalSet
    BY DEF ReqsFit
  <1>2. PICK x : x = [pc |-> label, kind |-> req[r].kind, seen |-> None, outcome |-> req[r].outcome]
    OBVIOUS
  <1>3. x \in LocalSet
    BY <1>1, <1>2 DEF LocalSet
  <1>4. PICK y : y = [req[r] EXCEPT !.pc = label]
    OBVIOUS
  <1>5. y \in LocalSet /\ y.pc = label /\ y.kind = req[r].kind /\ y.outcome = req[r].outcome
    BY <1>1, <1>4 DEF LocalSet
  <1>6. x = [y EXCEPT !.seen = None]
    BY <1>2, <1>5 DEF LocalSet
  <1>7. req' = [req EXCEPT ![r] = x]
    BY <1>4, <1>6 DEF Goto, ReqsFit
  <1> QED BY <1>2, <1>3, <1>7 DEF Moves, ReqsFit

(* A lookup keeps what it found.                                                  *)
LEMMA FoundMoves ==
    ASSUME ReqsFit, NEW r \in Requests, NEW label \in Labels, NEW status \in {None, "done", "failed"},
           Found(r, status, label)
    PROVE  Moves(r, label, req[r].kind, status, req[r].outcome)
  <1>1. req[r] \in LocalSet
    BY DEF ReqsFit
  <1>2. PICK x : x = [pc |-> label, kind |-> req[r].kind, seen |-> status, outcome |-> req[r].outcome]
    OBVIOUS
  <1>3. x \in LocalSet
    BY <1>1, <1>2 DEF LocalSet
  <1>4. PICK y : y = [req[r] EXCEPT !.pc = label]
    OBVIOUS
  <1>5. y \in LocalSet /\ y.pc = label /\ y.kind = req[r].kind /\ y.outcome = req[r].outcome
    BY <1>1, <1>4 DEF LocalSet
  <1>6. x = [y EXCEPT !.seen = status]
    BY <1>2, <1>5 DEF LocalSet
  <1>7. req' = [req EXCEPT ![r] = x]
    BY <1>4, <1>6 DEF Found, ReqsFit
  <1> QED BY <1>2, <1>3, <1>7 DEF Moves, ReqsFit

(* A handler that leaves forgets its locals.                                       *)
LEMMA LeaveMoves ==
    ASSUME ReqsFit, NEW r \in Requests, NEW label \in Labels, Leave(r, label)
    PROVE  Moves(r, label, None, None, None)
  <1>1. PICK x : x = Locals(label)
    OBVIOUS
  <1>2. x \in LocalSet /\ x.pc = label /\ x.kind = None /\ x.seen = None /\ x.outcome = None
    BY <1>1 DEF Locals, LocalSet
  <1>3. req' = [req EXCEPT ![r] = x]
    BY <1>1 DEF Leave
  <1> QED BY <1>2, <1>3 DEF Moves, ReqsFit

(* The locals still fit when the new ones do.                                    *)
LEMMA StillFit ==
    ASSUME ReqsFit, NEW r \in Requests, NEW p, NEW k, NEW s, NEW o, Moves(r, p, k, s, o),
           k = None <=> p \in {"idle"} \cup Over,
           o # None <=> p \in {"gstore", "after", "storing"},
           p \in {"asked", "read", "storing"} => k.tid,
           p \in {"gasked", "gread", "gstart", "gstore"} => k.build,
           p = "storing" => o \in {"done", "failed"}
    PROVE  ReqsFit'
  <1> SUFFICES ASSUME NEW q \in Requests PROVE LocalsFit(req'[q])
    BY DEF ReqsFit, Moves
  <1>1. CASE q = r
    BY <1>1 DEF Moves, LocalsFit
  <1>2. CASE q # r
    BY <1>2 DEF Moves, ReqsFit
  <1> QED BY <1>1, <1>2

(* A send goes to the idempotency block, or straight to the gates when it has no id. *)
LEMMA SendMoves ==
    ASSUME ReqsFit, NEW r \in Requests, NEW k \in Kinds, Send(r, k)
    PROVE  Moves(r, IF k.tid THEN "asked" ELSE "gates", k, req[r].seen, req[r].outcome)
  <1>1. req[r] \in LocalSet
    BY DEF ReqsFit
  <1>2. PICK p : p = IF k.tid THEN "asked" ELSE "gates"
    OBVIOUS
  <1>3. p \in Labels
    BY <1>2 DEF Labels, Running, Preparing
  <1>4. PICK y : y = [req[r] EXCEPT !.kind = k]
    OBVIOUS
  <1>5. y \in LocalSet /\ y.kind = k /\ y.seen = req[r].seen /\ y.outcome = req[r].outcome
    BY <1>1, <1>4 DEF LocalSet
  <1>6. PICK x : x = [y EXCEPT !.pc = p]
    OBVIOUS
  <1>7. x \in LocalSet /\ x.pc = p /\ x.kind = k /\ x.seen = req[r].seen /\ x.outcome = req[r].outcome
    BY <1>3, <1>5, <1>6 DEF LocalSet
  <1>8. req' = [req EXCEPT ![r] = x]
    BY <1>2, <1>4, <1>6 DEF Send, ReqsFit
  <1> QED BY <1>2, <1>7, <1>8 DEF Moves, ReqsFit

(* The turn's outcome is kept until it is stored.                                  *)
LEMMA RunTailMoves ==
    ASSUME ReqsFit, NEW r \in Requests, NEW o \in {"done", "failed", "refused", "crash"}, RunTail(r, o)
    PROVE  Moves(r, IF req[r].kind.build THEN "gstore" ELSE "after", req[r].kind, req[r].seen, o)
  <1>1. req[r] \in LocalSet
    BY DEF ReqsFit
  <1>2. PICK p : p = IF req[r].kind.build THEN "gstore" ELSE "after"
    OBVIOUS
  <1>3. p \in Labels
    BY <1>2 DEF Labels, Running
  <1>4. PICK y : y = [req[r] EXCEPT !.outcome = o]
    OBVIOUS
  <1>5. y \in LocalSet /\ y.outcome = o /\ y.seen = req[r].seen /\ y.kind = req[r].kind
    BY <1>1, <1>4 DEF LocalSet
  <1>6. PICK x : x = [y EXCEPT !.pc = p]
    OBVIOUS
  <1>7. x \in LocalSet /\ x.pc = p /\ x.kind = req[r].kind /\ x.seen = req[r].seen /\ x.outcome = o
    BY <1>3, <1>5, <1>6 DEF LocalSet
  <1>8. req' = [req EXCEPT ![r] = x]
    BY <1>2, <1>4, <1>6 DEF RunTail, ReqsFit
  <1> QED BY <1>2, <1>7, <1>8 DEF Moves, ReqsFit

-----------------------------------------------------------------------------
(* The turn id.                                                              *)

(* What a step of one request does to who runs the id.                           *)
LEMMA OthersRun ==
    ASSUME NEW r \in Requests, NEW p, NEW k, NEW s, NEW o, Moves(r, p, k, s, o)
    PROVE  /\ \A q \in Requests : q # r => (Runs(q)' <=> Runs(q)) /\ req'[q].pc = req[q].pc
           /\ Runs(r)' <=> p \in Running /\ k.tid
           /\ req'[r].pc = p
  BY DEF Moves, Runs, Live

(* A step that leaves the map and the row alone, and neither starts to run the id *)
(* nor stops but in a way the wrapper does not see.                              *)
LEMMA IdStays ==
    ASSUME TurnIdHeld, NEW r \in Requests, NEW p, NEW k, NEW s, NEW o, Moves(r, p, k, s, o),
           UNCHANGED chatVars, p # "storing", req[r].pc \notin {"unopened", "cut", "streamed"},
           p \in Running /\ k.tid => Runs(r) /\ req[r].pc # "storing",
           Runs(r) /\ req[r].pc # "storing" => (p \in Running /\ k.tid) \/ p \in {"unopened", "cut", "streamed"}
    PROVE  TurnIdHeld'
  <1>1. /\ \A q \in Requests : q # r => (Runs(q)' <=> Runs(q)) /\ req'[q].pc = req[q].pc
        /\ Runs(r)' <=> p \in Running /\ k.tid
        /\ req'[r].pc = p
    BY OthersRun
  <1>2. flight' = flight /\ chat' = chat /\ slip' = slip
    BY DEF chatVars
  <1>3. flight # None => flight.by \in Requests
    BY DEF TurnIdHeld
  <1>4. flight' # None => /\ Runs(flight.by)' \/ req'[flight'.by].pc \in {"unopened", "cut", "streamed"}
                          /\ req'[flight'.by].pc # "storing"
    <2>1. CASE flight # None /\ flight.by = r
      BY <1>1, <1>2, <2>1 DEF TurnIdHeld
    <2>2. CASE flight # None /\ flight.by # r
      BY <1>1, <1>2, <1>3, <2>2 DEF TurnIdHeld
    <2> QED BY <1>2, <2>1, <2>2
  <1>5. \A q \in Requests : Runs(q)' => Runs(q) /\ (req[q].pc = "storing" => req'[q].pc = "storing")
    BY <1>1
  <1>6. slip' = "none" => /\ \A q, t \in Requests : Runs(q)' /\ Runs(t)' => q = t
                          /\ \A q \in Requests : Runs(q)' =>
                                chat' = None /\ (req'[q].pc = "storing" \/ (flight' # None /\ flight'.by = q))
    BY <1>2, <1>5 DEF TurnIdHeld
  <1> QED BY <1>2, <1>4, <1>6 DEF TurnIdHeld

(* A step that pops the entry, whosever it is.                                   *)
LEMMA IdPopped ==
    ASSUME TurnIdHeld, NEW r \in Requests, NEW p, NEW k, NEW s, NEW o, Moves(r, p, k, s, o),
           NEW cause \in {"valve", "released"}, Pop(r, cause), chat' = chat,
           p \in Running /\ k.tid => Runs(r) /\ p = "storing"
    PROVE  TurnIdHeld'
  <1>1. /\ \A q \in Requests : q # r => (Runs(q)' <=> Runs(q)) /\ req'[q].pc = req[q].pc
        /\ Runs(r)' <=> p \in Running /\ k.tid
        /\ req'[r].pc = p
    BY OthersRun
  <1>2. flight' = None /\ slip' \in {"none", "valve", "race", "released"}
    BY DEF Pop, Slip, TurnIdHeld
  <1>3. slip' = "none" => slip = "none" /\ (flight # None => flight.by = r \/ ~Live(flight.by))
    BY DEF Pop, Slip
  <1>4. slip' = "none" => /\ \A q, t \in Requests : Runs(q)' /\ Runs(t)' => q = t
                          /\ \A q \in Requests : Runs(q)' => chat' = None /\ req'[q].pc = "storing"
    BY <1>1, <1>3 DEF TurnIdHeld, Runs
  <1> QED BY <1>2, <1>4 DEF TurnIdHeld

(* A request that is over through the wrapper, or abandoned.                      *)
LEMMA IdReleases ==
    ASSUME ReqsFit, TurnIdHeld, NEW r \in Requests, NEW p \in Over \ {"unopened", "cut", "streamed"},
           Leave(r, p), Release(r), chat' = chat, req[r].pc \notin {"idle"} \cup Over
    PROVE  TurnIdHeld'
  <1>1. Moves(r, p, None, None, None) /\ p \notin Running /\ p # "storing"
    BY LeaveMoves DEF Labels, Over, Running, Preparing
  <1>2. CASE req[r].kind.tid
    <2>1. Pop(r, "released")
      BY <1>2 DEF Release
    <2> QED BY <1>1, <2>1, IdPopped
  <1>3. CASE ~req[r].kind.tid
    <2>1. UNCHANGED chatVars /\ ~Runs(r)
      BY <1>3 DEF Release, chatVars, Runs
    <2>2. req[r].pc \notin {"unopened", "cut", "streamed"}
      BY DEF Over
    <2> QED BY <1>1, <2>1, <2>2, IdStays
  <1> QED BY <1>2, <1>3

-----------------------------------------------------------------------------
(* The generation id.                                                        *)

AtBuild == {"gstart", "opened", "tail", "gstore"}

(* What a step of one request does to who builds.                                *)
LEMMA OthersBuild ==
    ASSUME NEW r \in Requests, NEW p, NEW k, NEW s, NEW o, Moves(r, p, k, s, o)
    PROVE  /\ \A q \in Requests : q # r => (Building(q)' <=> Building(q)) /\ (Holds(q)' <=> Holds(q))
           /\ Building(r)' <=> p \in AtBuild /\ k.build
           /\ Holds(r)' <=> (p \in AtBuild /\ k.build) \/ p \in {"unopened", "stuck", "lost"}
  BY DEF Moves, Building, Holds, AtBuild

(* A step that leaves the row alone and neither starts to build nor stops but in  *)
(* a way that leaves the row to the sweep.                                       *)
LEMMA BuildStays ==
    ASSUME GenerationHeld, NEW r \in Requests, NEW p, NEW k, NEW s, NEW o, Moves(r, p, k, s, o),
           UNCHANGED <<gen, gslip, swept>>, gflight' \in Requests \cup {None},
           req[r].pc \notin {"unopened", "stuck", "lost"},
           p \in AtBuild /\ k.build => Building(r),
           Building(r) => (p \in AtBuild /\ k.build) \/ p \in {"unopened", "stuck", "lost"}
    PROVE  GenerationHeld'
  <1>1. /\ \A q \in Requests : q # r => (Building(q)' <=> Building(q)) /\ (Holds(q)' <=> Holds(q))
        /\ Building(r)' <=> p \in AtBuild /\ k.build
        /\ Holds(r)' <=> (p \in AtBuild /\ k.build) \/ p \in {"unopened", "stuck", "lost"}
    BY OthersBuild
  <1>2. \A q \in Requests : (Building(q)' => Building(q)) /\ (Holds(q) => Holds(q)')
    BY <1>1 DEF Holds
  <1>3. (swept /\ gen.status = "running" => \E q \in Requests : Holds(q))'
    BY <1>2 DEF GenerationHeld
  <1> QED BY <1>2, <1>3 DEF GenerationHeld

(* A request that never builds, or is over.                                      *)
LEMMA BuildsNot ==
    ASSUME GenerationHeld, NEW r \in Requests, NEW p, NEW k, NEW s, NEW o, Moves(r, p, k, s, o),
           UNCHANGED <<gen, gslip, swept, gflight>>, ~Building(r), req[r].pc \notin {"unopened", "stuck", "lost"},
           p \notin AtBuild \/ ~k.build
    PROVE  GenerationHeld'
  <1>1. gflight' \in Requests \cup {None}
    BY DEF GenerationHeld
  <1> QED BY <1>1, BuildStays

(* A build that begins has looked for another: unless it slips there is none.     *)
LEMMA BuildBegins ==
    ASSUME GenerationHeld, NEW r \in Requests, NEW p, NEW k, NEW s, NEW o, Moves(r, p, k, s, o),
           UNCHANGED <<gen, swept>>, gflight' \in Requests \cup {None},
           gslip' \in {"none", "race", "unregistered", "swept"},
           gslip' = "none" => gslip = "none" /\ ~SomeBuild /\ gen.status # "done",
           req[r].pc \notin {"unopened", "stuck", "lost"}, ~Building(r)
    PROVE  GenerationHeld'
  <1>1. \A q \in Requests : q # r => (Building(q)' <=> Building(q)) /\ (Holds(q)' <=> Holds(q))
    BY OthersBuild
  <1>2. ~Holds(r)
    BY DEF Holds
  <1>3. (swept /\ gen.status = "running" => \E q \in Requests : Holds(q))'
    BY <1>1, <1>2 DEF GenerationHeld
  <1>4. gslip' = "none" => \A q, t \in Requests : Building(q)' /\ Building(t)' => q = t
    BY <1>1 DEF SomeBuild
  <1> QED BY <1>3, <1>4 DEF GenerationHeld

-----------------------------------------------------------------------------
(* The steps of a handler.                                                   *)

HandlersFit == ReqsFit /\ TurnIdHeld /\ GenerationHeld

(* A step of a request that is not yet running, or goes on running: neither id is *)
(* touched.                                                                     *)
LEMMA RequestGoesOn ==
    ASSUME HandlersFit, NEW r \in Requests, NEW p, NEW k, NEW s, NEW o, Moves(r, p, k, s, o), ReqsFit',
           UNCHANGED <<chatVars, gen, gslip, swept>>, gflight' \in Requests \cup {None},
           p \in Running \ {"storing"} /\ k = req[r].kind, req[r].pc \in Running \ {"storing"},
           p \in AtBuild /\ k.build <=> Building(r)
    PROVE  HandlersFit'
  <1>1. Runs(r) <=> p \in Running /\ k.tid
    BY DEF Runs, Live
  <1>2. req[r].pc \notin {"unopened", "cut", "streamed", "stuck", "lost"}
    BY DEF Running, Preparing
  <1>3. TurnIdHeld'
    BY <1>1, <1>2, IdStays DEF HandlersFit
  <1>4. GenerationHeld'
    BY <1>2, BuildStays DEF HandlersFit
  <1> QED BY <1>3, <1>4 DEF HandlersFit

(* A request that is over through the wrapper, or abandoned, whatever its build.  *)
LEMMA RequestIsOver ==
    ASSUME HandlersFit, NEW r \in Requests, NEW p \in Over \ {"unopened", "cut", "streamed"},
           Leave(r, p), Release(r), chat' = chat, UNCHANGED <<gflight, gen, gslip, swept>>,
           req[r].pc \notin {"idle"} \cup Over, Building(r) => p \in {"stuck", "lost"}
    PROVE  HandlersFit'
  <1>1. Moves(r, p, None, None, None)
    BY LeaveMoves DEF HandlersFit, Labels
  <1>2. ReqsFit'
    BY <1>1, StillFit DEF HandlersFit, Over
  <1>3. TurnIdHeld'
    BY IdReleases DEF HandlersFit
  <1>4. p \notin AtBuild /\ gflight' \in Requests \cup {None} /\ req[r].pc \notin {"unopened", "stuck", "lost"}
    BY DEF HandlersFit, GenerationHeld, AtBuild, Over
  <1>5. GenerationHeld'
    BY <1>1, <1>4, BuildStays DEF HandlersFit
  <1> QED BY <1>2, <1>3, <1>5 DEF HandlersFit

(* Up to the registration.                                                       *)
LEMMA AdmissionSteps ==
    ASSUME HandlersFit, NEW r \in Requests,
           \/ (\E k \in Kinds : Send(r, k)) \/ LookupTerminal(r) \/ LookupFails(r) \/ Admit(r) \/ Refuse(r)
    PROVE  HandlersFit'
  <1>0. ReqsFit /\ TurnIdHeld /\ GenerationHeld /\ LocalsFit(req[r])
    BY DEF HandlersFit, ReqsFit
  <1> USE DEF chatVars, genVars, world
  <1>1. ASSUME NEW k \in Kinds, Send(r, k) PROVE HandlersFit'
    <2>1. PICK p : p = IF k.tid THEN "asked" ELSE "gates"
      OBVIOUS
    <2>2. Moves(r, p, k, req[r].seen, req[r].outcome) /\ req[r].pc = "idle"
      BY <1>0, <1>1, <2>1, SendMoves DEF Send
    <2>3. ReqsFit'
      BY <1>0, <2>1, <2>2, StillFit, KindsAre DEF LocalsFit, Over
    <2>4. TurnIdHeld'
      BY <1>0, <1>1, <2>1, <2>2, IdStays DEF Send, Runs, Live, Running, Preparing
    <2>5. GenerationHeld'
      BY <1>0, <1>1, <2>1, <2>2, BuildsNot DEF Send, Building, AtBuild
    <2> QED BY <2>3, <2>4, <2>5 DEF HandlersFit
  <1>2. CASE LookupTerminal(r)
    <2>1. Moves(r, "read", req[r].kind, chat, req[r].outcome) /\ req[r].pc = "asked"
      BY <1>0, <1>2, FoundMoves DEF LookupTerminal, TurnIdHeld, Labels
    <2>2. ReqsFit'
      BY <1>0, <2>1, StillFit DEF LocalsFit, Over
    <2>3. TurnIdHeld'
      BY <1>0, <1>2, <2>1, IdStays DEF LookupTerminal, Runs, Live, Running, Preparing
    <2>4. GenerationHeld'
      BY <1>0, <1>2, <2>1, BuildsNot DEF LookupTerminal, Building, AtBuild
    <2> QED BY <2>2, <2>3, <2>4 DEF HandlersFit
  <1>3. CASE LookupFails(r)
    BY <1>3, RequestIsOver DEF LookupFails, Over, Building
  <1>4. CASE Refuse(r)
    BY <1>4, RequestIsOver DEF Refuse, Over, Building
  <1>5. CASE Admit(r)
    <2>1. CASE Release(r) /\ Leave(r, "end")
      BY <1>5, <2>1, RequestIsOver DEF Admit, Over, Building
    <2>2. CASE Leave(r, "end") /\ UNCHANGED <<flight, slip>>
      <3>1. Moves(r, "end", None, None, None) /\ req[r].pc = "read"
        BY <1>0, <1>5, <2>2, LeaveMoves DEF Admit, Labels, Over
      <3>2. ReqsFit'
        BY <1>0, <3>1, StillFit DEF Over
      <3>3. TurnIdHeld'
        BY <1>0, <1>5, <2>2, <3>1, IdStays DEF Admit, Runs, Live, Running, Preparing
      <3>4. GenerationHeld'
        BY <1>0, <1>5, <3>1, BuildsNot DEF Admit, Building, AtBuild
      <3> QED BY <3>2, <3>3, <3>4 DEF HandlersFit
    <2>3. CASE req[r].seen = None /\ RunningInfo = None /\ Begin(r) /\ Goto(r, "gates")
      <3>1. Moves(r, "gates", req[r].kind, None, req[r].outcome) /\ req[r].pc = "read"
        BY <1>0, <1>5, <2>3, GotoMoves DEF Admit, Labels, Running, Preparing
      <3>2. ReqsFit'
        BY <1>0, <3>1, StillFit DEF LocalsFit, Over
      <3>3. /\ \A q \in Requests : q # r => (Runs(q)' <=> Runs(q)) /\ req'[q].pc = req[q].pc
            /\ Runs(r)' /\ req'[r].pc = "gates" /\ ~Runs(r)
        BY <1>0, <3>1, OthersRun DEF Running, Preparing, LocalsFit, Runs, Live
      <3>4. /\ flight' = [by |-> r, old |-> FALSE] /\ chat' = chat
            /\ slip' \in {"none", "valve", "race", "released"}
            /\ slip' = "none" => /\ slip = "none" /\ ~(flight # None /\ flight.old /\ Live(flight.by))
                                 /\ chat = None /\ \A q \in Requests : req[q].pc # "storing"
        BY <1>0, <1>5, <2>3 DEF Admit, Begin, Slip, TurnIdHeld
      <3>5. flight = None \/ flight.old
        BY <2>3 DEF RunningInfo
      <3>6. slip' = "none" => \A q \in Requests : ~Runs(q)
        BY <1>0, <3>4, <3>5 DEF TurnIdHeld, Runs
      <3>7. flight' # None /\ flight'.by = r /\ flight' \in [by : Requests, old : BOOLEAN]
        <4>1. flight' \in [by : Requests, old : BOOLEAN] /\ flight'.by = r
          BY <3>4
        <4> QED BY <4>1, TurnsAssumption
      <3>8. TurnIdHeld'
        BY <1>0, <3>3, <3>4, <3>6, <3>7 DEF TurnIdHeld
      <3>9. GenerationHeld'
        BY <1>0, <1>5, <3>1, BuildsNot DEF Admit, Building, AtBuild
      <3> QED BY <3>2, <3>8, <3>9 DEF HandlersFit
    <2> QED BY <1>5, <2>1, <2>2, <2>3 DEF Admit
  <1> QED BY <1>1, <1>2, <1>3, <1>4, <1>5

(* The build's own admission, and the response that starts the turn.              *)
LEMMA BuildSteps ==
    ASSUME HandlersFit, NEW r \in Requests,
           \/ Route(r) \/ GenerationLookup(r) \/ GenerationAdmit(r) \/ RecordStart(r) \/ RecordStartFails(r)
           \/ Open(r) \/ Unopened(r)
    PROVE  HandlersFit'
  <1>0. ReqsFit /\ TurnIdHeld /\ GenerationHeld /\ LocalsFit(req[r])
    BY DEF HandlersFit, ReqsFit
  <1>g. gflight \in Requests \cup {None}
    BY <1>0 DEF GenerationHeld
  <1>k. req[r].kind # None => req[r].kind \in Kinds /\ (req[r].kind.build => req[r].kind.via \in {"json", "sse"})
    BY <1>0, KindsAre DEF LocalsFit, LocalSet
  <1>y. Ready(r) \in {"tail", "opened"}
    BY DEF Ready
  <1> USE DEF chatVars, genVars, world
  <1>1. CASE Route(r)
    <2>1. PICK p \in {"streaming", "gasked", "tail", "opened"} :
            /\ Goto(r, p) /\ (p = "gasked" => req[r].kind.build) /\ (p # "gasked" => ~req[r].kind.build)
      BY <1>1, <1>0, <1>k, <1>y DEF Route, LocalsFit, Over
    <2>2. Moves(r, p, req[r].kind, None, req[r].outcome) /\ req[r].pc = "gates"
      BY <1>0, <1>1, <2>1, GotoMoves DEF Route, Labels, Running, Preparing
    <2>3. ReqsFit'
      BY <1>0, <2>1, <2>2, StillFit DEF LocalsFit, Over
    <2>4. p \in Running \ {"storing"} /\ "gates" \in Running \ {"storing"} /\ (p \in AtBuild /\ req[r].kind.build <=> Building(r))
      BY <2>1, <2>2 DEF Running, Preparing, AtBuild, Building
    <2> QED BY <1>1, <1>g, <2>2, <2>3, <2>4, RequestGoesOn DEF Route
  <1>2. CASE GenerationLookup(r)
    <2>1. GenTerminal \in {None, "done", "failed"}
      BY <1>0 DEF GenTerminal, GenerationHeld
    <2>2. Moves(r, "gread", req[r].kind, GenTerminal, req[r].outcome) /\ req[r].pc = "gasked"
      BY <1>0, <1>2, <2>1, FoundMoves DEF GenerationLookup, Labels, Running, Preparing
    <2>3. ReqsFit'
      BY <1>0, <2>2, StillFit DEF LocalsFit, Over
    <2>4. /\ "gread" \in Running \ {"storing"} /\ "gasked" \in Running \ {"storing"}
          /\ "gread" \in AtBuild /\ req[r].kind.build <=> Building(r)
      BY <2>2 DEF Running, Preparing, AtBuild, Building
    <2> QED BY <1>2, <1>g, <2>2, <2>3, <2>4, RequestGoesOn DEF GenerationLookup
  <1>3. CASE GenerationAdmit(r)
    <2>1. req[r].pc = "gread" /\ req[r].kind.build /\ ~Building(r) /\ UNCHANGED <<chat, gen, swept>>
      BY <1>0, <1>3 DEF GenerationAdmit, AdmitBuild, LocalsFit, Building
    <2>2. CASE Release(r) /\ Leave(r, "end") /\ UNCHANGED <<gflight, gslip>>
      BY <2>1, <2>2, RequestIsOver DEF Over
    <2>3. ASSUME NEW p \in {"gstart", "tail", "opened"}, Goto(r, p), UNCHANGED <<flight, slip>>,
                 gflight' \in Requests \cup {None}, gslip' \in {"none", "race", "unregistered", "swept"},
                 gslip' = "none" => gslip = "none" /\ ~SomeBuild /\ gen.status # "done"
          PROVE  HandlersFit'
      <3>1. Moves(r, p, req[r].kind, None, req[r].outcome)
        BY <1>0, <2>3, GotoMoves DEF Labels, Running, Preparing
      <3>2. ReqsFit'
        BY <1>0, <2>1, <3>1, StillFit DEF LocalsFit, Over
      <3>3. TurnIdHeld'
        BY <1>0, <2>1, <2>3, <3>1, IdStays DEF Runs, Live, Running, Preparing
      <3>4. GenerationHeld'
        BY <1>0, <2>1, <2>3, <3>1, BuildBegins
      <3> QED BY <3>2, <3>3, <3>4 DEF HandlersFit
    <2>4. CASE /\ req[r].seen = None /\ gflight = None /\ gflight' = r /\ Goto(r, "gstart") /\ UNCHANGED <<flight, slip>>
               /\ gslip' = Slip(gslip, Outdated(r) \/ (gflight = None /\ SomeBuild), "race")
      <3>1. gslip' \in {"none", "race", "unregistered", "swept"} /\ gflight' \in Requests \cup {None}
        BY <1>0, <2>4 DEF Slip, GenerationHeld
      <3>2. gslip' = "none" => gslip = "none" /\ ~SomeBuild /\ GenTerminal = None
        BY <2>4 DEF Slip, Outdated
      <3>3. GenTerminal = None => gen.status # "done"
        BY KindsAre DEF GenTerminal
      <3> QED BY <2>3, <2>4, <3>1, <3>2, <3>3
    <2>5. CASE /\ req[r].seen = "failed" /\ gflight' = gflight /\ Goto(r, Ready(r)) /\ UNCHANGED <<flight, slip>>
               /\ gslip' = Slip(gslip, Outdated(r) \/ SomeBuild, "unregistered")
      <3>1. gslip' \in {"none", "race", "unregistered", "swept"} /\ gflight' \in Requests \cup {None}
        BY <1>0, <2>5 DEF Slip, GenerationHeld
      <3>2. gslip' = "none" => gslip = "none" /\ ~SomeBuild /\ GenTerminal = "failed"
        BY <2>5 DEF Slip, Outdated
      <3>3. GenTerminal = "failed" => gen.status # "done"
        BY DEF GenTerminal
      <3> QED BY <1>y, <2>3, <2>5, <3>1, <3>2, <3>3
    <2> QED BY <1>3, <2>2, <2>4, <2>5 DEF GenerationAdmit, AdmitBuild
  <1>4. CASE RecordStart(r)
    <2>1. /\ req[r].pc = "gstart" /\ req[r].kind.build /\ Goto(r, Ready(r)) /\ Building(r)
          /\ gen' = [status |-> "running", acked |-> FALSE] /\ UNCHANGED <<chatVars, gflight, gslip, swept>>
      BY <1>0, <1>4 DEF RecordStart, LocalsFit, Building
    <2>p. PICK p \in {"tail", "opened"} : p = Ready(r)
      BY <1>y
    <2>2. Moves(r, p, req[r].kind, None, req[r].outcome)
      BY <1>0, <2>1, <2>p, GotoMoves DEF Labels, Running, Preparing
    <2>3. ReqsFit'
      BY <1>0, <2>1, <2>2, StillFit DEF LocalsFit, Over
    <2>4. TurnIdHeld'
      BY <1>0, <2>1, <2>2, IdStays DEF Runs, Live, Running, Preparing
    <2>5. /\ \A q \in Requests : q # r => (Building(q)' <=> Building(q)) /\ (Holds(q)' <=> Holds(q))
          /\ Building(r)' /\ Holds(r)'
      BY <2>1, <2>2, OthersBuild DEF AtBuild
    <2>6. gen' \in [status : {None, "running", "done", "failed"}, acked : BOOLEAN] /\ gen'.status = "running"
      BY <2>1
    <2>7. GenerationHeld'
      BY <1>0, <2>1, <2>5, <2>6 DEF GenerationHeld
    <2> QED BY <2>3, <2>4, <2>7 DEF HandlersFit
  <1>5. CASE RecordStartFails(r)
    BY <1>5, RequestIsOver DEF RecordStartFails, Over
  <1>6. CASE Open(r)
    <2>1. Moves(r, "tail", req[r].kind, None, req[r].outcome) /\ req[r].pc = "opened"
      BY <1>0, <1>6, GotoMoves DEF Open, Labels, Running, Preparing
    <2>2. ReqsFit'
      BY <1>0, <2>1, StillFit DEF LocalsFit, Over
    <2>3. /\ "tail" \in Running \ {"storing"} /\ "opened" \in Running \ {"storing"}
          /\ "tail" \in AtBuild /\ req[r].kind.build <=> Building(r)
      BY <2>1 DEF Running, Preparing, AtBuild, Building
    <2> QED BY <1>6, <1>g, <2>1, <2>2, <2>3, RequestGoesOn DEF Open
  <1>7. CASE Unopened(r)
    <2>1. Moves(r, "unopened", None, None, None) /\ req[r].pc = "opened"
      BY <1>0, <1>7, LeaveMoves DEF Unopened, Labels, Over
    <2>2. ReqsFit'
      BY <1>0, <2>1, StillFit DEF Over
    <2>3. TurnIdHeld'
      BY <1>0, <1>7, <2>1, IdStays DEF Unopened, Running, Preparing
    <2>4. GenerationHeld'
      BY <1>0, <1>7, <1>g, <2>1, BuildStays DEF Unopened, AtBuild
    <2> QED BY <2>2, <2>3, <2>4 DEF HandlersFit
  <1> QED BY <1>1, <1>2, <1>3, <1>4, <1>5, <1>6, <1>7

(* The turn itself, its records, and its ends.                                   *)
LEMMA TailSteps ==
    ASSUME HandlersFit, NEW r \in Requests,
           \/ \E o \in {"done", "failed", "refused", "crash"} : RunTail(r, o)
           \/ CollectFails(r) \/ GenerationFinish(r) \/ GenerationFinishFails(r) \/ Settle(r) \/ SettleFails(r)
    PROVE  HandlersFit'
  <1>0. ReqsFit /\ TurnIdHeld /\ GenerationHeld /\ LocalsFit(req[r])
    BY DEF HandlersFit, ReqsFit
  <1>g. gflight \in Requests \cup {None}
    BY <1>0 DEF GenerationHeld
  <1> USE DEF chatVars, genVars, world
  <1>1. ASSUME NEW o \in {"done", "failed", "refused", "crash"}, RunTail(r, o) PROVE HandlersFit'
    <2>1. PICK p \in {"gstore", "after"} : p = (IF req[r].kind.build THEN "gstore" ELSE "after")
      OBVIOUS
    <2>2. Moves(r, p, req[r].kind, req[r].seen, o) /\ req[r].pc = "tail"
      BY <1>0, <1>1, <2>1, RunTailMoves DEF RunTail
    <2>3. ReqsFit'
      BY <1>0, <2>1, <2>2, StillFit, KindsAre DEF LocalsFit, Over
    <2>4. /\ p \in Running \ {"storing"} /\ "tail" \in Running \ {"storing"}
          /\ p \in AtBuild /\ req[r].kind.build <=> Building(r)
      BY <2>1, <2>2 DEF Running, AtBuild, Building
    <2>5. gflight' \in Requests \cup {None} /\ UNCHANGED <<chatVars, gen, gslip, swept>>
      BY <1>1, <1>g DEF RunTail
    <2> QED BY <2>2, <2>3, <2>4, <2>5, RequestGoesOn
  <1>2. CASE CollectFails(r)
    BY <1>2, RequestIsOver DEF CollectFails, Abandon, Over
  <1>3. CASE GenerationFinish(r)
    <2>1. Moves(r, "after", req[r].kind, None, req[r].outcome) /\ req[r].pc = "gstore" /\ Building(r)
      BY <1>0, <1>3, GotoMoves DEF GenerationFinish, Labels, Running, LocalsFit, Building
    <2>2. ReqsFit'
      BY <1>0, <2>1, StillFit DEF LocalsFit, Over
    <2>3. TurnIdHeld'
      BY <1>0, <1>3, <2>1, IdStays DEF GenerationFinish, Runs, Live, Running, Preparing
    <2>4. /\ \A q \in Requests : q # r => (Building(q)' <=> Building(q))
          /\ ~Building(r)'
      BY <2>1, OthersBuild DEF AtBuild
    <2>5. PICK st \in {"done", "failed"} : gen' = [gen EXCEPT !.status = st]
      BY <1>3 DEF GenerationFinish
    <2>6. gen' \in [status : {None, "running", "done", "failed"}, acked : BOOLEAN] /\ gen'.status # "running"
      BY <1>0, <2>5 DEF GenerationHeld
    <2>7. UNCHANGED <<gflight, gslip>>
      BY <1>3 DEF GenerationFinish
    <2>8. gslip' = "none" => \A q \in Requests : ~Building(q)'
      BY <1>0, <2>1, <2>4, <2>7 DEF GenerationHeld
    <2>9. GenerationHeld'
      BY <1>0, <2>6, <2>7, <2>8 DEF GenerationHeld
    <2> QED BY <2>2, <2>3, <2>9 DEF HandlersFit
  <1>4. CASE GenerationFinishFails(r)
    BY <1>4, RequestIsOver DEF GenerationFinishFails, Abandon, Over
  <1>5. CASE Settle(r)
    <2>0. req[r].pc = "after" /\ ~Building(r) /\ UNCHANGED <<chat, gflight, gen, gslip, swept>>
      BY <1>5 DEF Settle, Building
    <2>1. CASE /\ req[r].kind.tid /\ req[r].outcome \in {"done", "failed"}
               /\ Pop(r, "released") /\ Goto(r, "storing")
      <3>1. Moves(r, "storing", req[r].kind, None, req[r].outcome)
        BY <1>0, <2>1, GotoMoves DEF Labels, Running
      <3>2. ReqsFit'
        BY <1>0, <2>0, <2>1, <3>1, StillFit DEF LocalsFit, Over
      <3>3. TurnIdHeld'
        BY <1>0, <2>0, <2>1, <3>1, IdPopped DEF Runs, Live, Running
      <3>4. GenerationHeld'
        BY <1>0, <2>0, <3>1, BuildsNot DEF AtBuild
      <3> QED BY <3>2, <3>3, <3>4 DEF HandlersFit
    <2>2. CASE Abandon(r) /\ Leave(r, "end")
      BY <2>0, <2>2, RequestIsOver DEF Abandon, Over
    <2> QED BY <1>5, <2>1, <2>2 DEF Settle
  <1>6. CASE SettleFails(r)
    BY <1>6, RequestIsOver DEF SettleFails, Abandon, Over, Building
  <1> QED BY <1>1, <1>2, <1>3, <1>4, <1>5, <1>6

(* The answer is stored, or lost; and the ways out that release nothing.          *)
LEMMA EndSteps ==
    ASSUME HandlersFit, NEW r \in Requests, Finish(r) \/ FinishFails(r) \/ WallClock(r) \/ StreamEnds(r)
    PROVE  HandlersFit'
  <1>0. ReqsFit /\ TurnIdHeld /\ GenerationHeld /\ LocalsFit(req[r])
    BY DEF HandlersFit, ReqsFit
  <1> USE DEF chatVars, genVars, world
  <1>1. CASE Finish(r) \/ FinishFails(r)
    <2>0. /\ req[r].pc = "storing" /\ Leave(r, "end") /\ UNCHANGED <<gflight, gen, gslip, swept>>
          /\ chat' = chat \/ chat' = req[r].outcome
          /\ Pop(r, "released") \/ UNCHANGED <<flight, slip>>
      BY <1>1 DEF Finish, FinishFails, Release
    <2>1. Moves(r, "end", None, None, None)
      BY <1>0, <2>0, LeaveMoves DEF Labels, Over
    <2>2. ReqsFit'
      BY <1>0, <2>1, StillFit DEF Over
    <2>3. GenerationHeld'
      BY <1>0, <2>0, <2>1, BuildsNot DEF AtBuild, Building
    <2>4. Runs(r) /\ chat' \in {None, "done", "failed"}
      BY <1>0, <2>0 DEF Runs, Live, Running, LocalsFit, TurnIdHeld
    <2>5. /\ \A q \in Requests : q # r => (Runs(q)' <=> Runs(q)) /\ req'[q].pc = req[q].pc
          /\ ~Runs(r)' /\ req'[r].pc = "end"
      BY <2>1, OthersRun DEF Running, Preparing
    <2>6. slip' \in {"none", "valve", "race", "released"} /\ (slip' = "none" => slip = "none")
      BY <1>0, <2>0 DEF Pop, Slip, TurnIdHeld
    <2>7. slip' = "none" => \A q \in Requests : ~Runs(q)'
      BY <1>0, <2>4, <2>5, <2>6 DEF TurnIdHeld
    <2>8. flight' = None \/ (flight' = flight /\ flight.by # r /\ flight.by \in Requests)
      BY <1>0, <2>0 DEF Pop, TurnIdHeld
    <2>9. flight' # None => /\ Runs(flight.by)' \/ req'[flight'.by].pc \in {"unopened", "cut", "streamed"}
                            /\ req'[flight'.by].pc # "storing"
      BY <1>0, <2>5, <2>8 DEF TurnIdHeld
    <2>10. flight' # None => flight' = flight
      BY <2>8
    <2>11. TurnIdHeld'
      BY <1>0, <2>4, <2>6, <2>7, <2>9, <2>10 DEF TurnIdHeld
    <2> QED BY <2>2, <2>3, <2>11 DEF HandlersFit
  <1>2. CASE WallClock(r) \/ StreamEnds(r)
    <2>1. PICK p \in {"cut", "streamed"} : /\ Leave(r, p) /\ UNCHANGED <<chatVars, genVars, world>>
                                           /\ req[r].pc \in {"tail", "after", "storing", "streaming"}
                                           /\ req[r].kind.via = "n400" \/ req[r].pc = "streaming"
      BY <1>2 DEF WallClock, StreamEnds
    <2>2. Moves(r, p, None, None, None)
      BY <1>0, <2>1, LeaveMoves DEF Labels, Over
    <2>3. ReqsFit'
      BY <1>0, <2>2, StillFit DEF Over
    <2>4. TurnIdHeld'
      BY <1>0, <2>1, <2>2, IdStays DEF Running, Preparing
    <2>5. req[r].kind \in Kinds /\ (req[r].kind.build => req[r].kind.via \in {"json", "sse"})
      BY <1>0, <2>1, KindsAre DEF LocalsFit, LocalSet, Over
    <2>6. ~Building(r)
      BY <2>1, <2>5 DEF Building
    <2>7. GenerationHeld'
      BY <1>0, <2>1, <2>2, <2>6, BuildsNot DEF AtBuild
    <2> QED BY <2>3, <2>4, <2>7 DEF HandlersFit
  <1> QED BY <1>1, <1>2

-----------------------------------------------------------------------------
(* Time, the client's other calls, and the process.                          *)

(* Nothing has been sent and nothing is kept.                                    *)
LEMMA TurnsStart == Init => TurnsInv
  <1> SUFFICES ASSUME Init PROVE TurnsInv
    OBVIOUS
  <1>1. \A r \in Requests : req[r] = Locals("idle")
    BY DEF Init
  <1>2. LocalsFit(Locals("idle"))
    BY DEF Locals, LocalsFit, LocalSet, Labels, Over
  <1>3. ReqsFit
    BY <1>1, <1>2 DEF Init, ReqsFit, LocalsFit
  <1>4. \A r \in Requests : ~Live(r) /\ ~Building(r)
    BY <1>1 DEF Locals, Live, Building, Running, Preparing
  <1>5. TurnIdHeld
    BY <1>4 DEF Init, TurnIdHeld, Runs
  <1>6. GenerationHeld
    BY <1>4, KindsAre DEF Init, GenerationHeld, NoRow
  <1>7. WorldFits
    <2>1. swept \in BOOLEAN
      BY Zenon DEF Init
    <2> QED BY <2>1, TurnsAssumption DEF Init, WorldFits
  <1> QED BY <1>3, <1>5, <1>6, <1>7 DEF TurnsInv

(* A step that leaves every request where it is leaves them fit.                 *)
LEMMA RequestsStay ==
    ASSUME ReqsFit, UNCHANGED req
    PROVE  /\ ReqsFit' /\ \A r \in Requests : (Runs(r)' <=> Runs(r)) /\ (Building(r)' <=> Building(r)) /\ (Holds(r)' <=> Holds(r))
  BY DEF ReqsFit, Runs, Live, Building, Holds

(* Steps that are no handler's: time, polls, acknowledgements and restarts.          *)
LEMMA OtherSteps ==
    ASSUME HandlersFit, Age \/ Poll \/ Expire \/ Ack \/ PurgeAcked \/ Restart \/ SweepLostToRestart \/ UNCHANGED vars
    PROVE  HandlersFit'
  <1>0. ReqsFit /\ TurnIdHeld /\ GenerationHeld
    BY DEF HandlersFit
  <1> USE DEF chatVars, genVars, world
  <1>a. ASSUME UNCHANGED <<req, chatVars>> PROVE ReqsFit' /\ TurnIdHeld'
    BY <1>0, <1>a, RequestsStay DEF TurnIdHeld
  <1>b. ASSUME UNCHANGED <<req, gflight, gen, gslip, swept>> PROVE ReqsFit' /\ GenerationHeld'
    <2>1. /\ ReqsFit' /\ \A r \in Requests : (Building(r)' <=> Building(r)) /\ (Holds(r)' <=> Holds(r))
      BY <1>0, <1>b, RequestsStay
    <2> QED BY <1>0, <1>b, <2>1 DEF GenerationHeld
  <1>1. CASE Age
    <2>1. \A r \in Requests : Runs(r)' <=> Runs(r)
      BY <1>0, <1>1, RequestsStay DEF Age
    <2>2. /\ flight' \in [by : Requests, old : BOOLEAN] /\ flight'.by = flight.by /\ flight # None
          /\ UNCHANGED <<req, chat, slip>>
      <3>1. flight # None /\ flight \in [by : Requests, old : BOOLEAN]
        BY <1>0, <1>1 DEF Age, TurnIdHeld
      <3>2. PICK v \in BOOLEAN : v = TRUE
        OBVIOUS
      <3>3. flight' = [flight EXCEPT !.old = v] /\ UNCHANGED <<req, chat, slip>>
        BY <1>1, <3>2 DEF Age
      <3> QED BY <3>1, <3>3
    <2>3. flight.by \in Requests /\ flight' # None
      BY <1>0, <2>2, TurnsAssumption DEF TurnIdHeld
    <2>4. (flight # None => /\ Runs(flight.by) \/ req[flight.by].pc \in {"unopened", "cut", "streamed"}
                            /\ req[flight.by].pc # "storing")'
      <3>1. Runs(flight.by) \/ req[flight.by].pc \in {"unopened", "cut", "streamed"}
        BY <1>0, <2>2 DEF TurnIdHeld
      <3>2. req[flight.by].pc # "storing"
        BY <1>0, <2>2 DEF TurnIdHeld
      <3> QED BY <2>2, <3>1, <3>2 DEF Runs, Live
    <2>5. TurnIdHeld'
      BY <1>0, <2>1, <2>2, <2>3, <2>4 DEF TurnIdHeld
    <2> QED BY <1>1, <1>b, <2>5 DEF Age, HandlersFit
  <1>2. CASE Poll
    <2>1. \A r \in Requests : Runs(r)' <=> Runs(r)
      BY <1>0, <1>2, RequestsStay DEF Poll
    <2>2. /\ flight' = None /\ UNCHANGED <<req, chat>> /\ slip' \in {"none", "valve", "race", "released"}
          /\ slip' = "none" => slip = "none" /\ (flight.by # None => ~Live(flight.by))
      BY <1>0, <1>2 DEF Poll, Pop, Slip, TurnIdHeld
    <2>3. slip' = "none" => \A r \in Requests : Runs(r) => req[r].pc = "storing"
      BY <1>0, <2>2, KindsAre DEF TurnIdHeld, Runs
    <2>4. TurnIdHeld'
      BY <1>0, <2>1, <2>2, <2>3 DEF TurnIdHeld
    <2> QED BY <1>2, <1>b, <2>4 DEF Poll, HandlersFit
  <1>3. CASE Expire
    <2>1. CASE chat' = None /\ UNCHANGED genVars
      <3>1. \A r \in Requests : Runs(r)' <=> Runs(r)
        BY <1>0, <1>3, RequestsStay DEF Expire
      <3>2. TurnIdHeld'
        BY <1>0, <1>3, <2>1, <3>1 DEF Expire, TurnIdHeld
      <3> QED BY <1>3, <1>b, <2>1, <3>2 DEF Expire, HandlersFit
    <2>2. CASE gen' = NoRow /\ UNCHANGED <<chat, gflight, gslip>>
      <3>1. \A r \in Requests : Building(r)' <=> Building(r)
        BY <1>0, <1>3, RequestsStay DEF Expire
      <3>2. gen' \in [status : {None, "running", "done", "failed"}, acked : BOOLEAN] /\ gen'.status = None
        BY <2>2 DEF NoRow
      <3>3. GenerationHeld'
        BY <1>0, <2>2, <3>1, <3>2, KindsAre, TurnsAssumption DEF GenerationHeld
      <3> QED BY <1>3, <1>a, <2>2, <3>3 DEF Expire, HandlersFit
    <2> QED BY <1>3, <2>1, <2>2 DEF Expire
  <1>4. CASE Ack
    <2>1. \A r \in Requests : (Building(r)' <=> Building(r)) /\ (Holds(r)' <=> Holds(r))
      BY <1>0, <1>4, RequestsStay DEF Ack
    <2>2. /\ gen' \in [status : {None, "running", "done", "failed"}, acked : BOOLEAN]
          /\ gen'.status = gen.status /\ UNCHANGED <<gflight, gslip, swept>>
      <3>1. PICK v \in BOOLEAN : v = TRUE
        OBVIOUS
      <3>2. gen' = [gen EXCEPT !.acked = v] /\ UNCHANGED <<gflight, gslip, swept>>
        BY <1>4, <3>1 DEF Ack
      <3> QED BY <1>0, <3>2 DEF GenerationHeld
    <2>3. GenerationHeld'
      BY <1>0, <2>1, <2>2 DEF GenerationHeld
    <2> QED BY <1>4, <1>a, <2>3 DEF Ack, HandlersFit
  <1>5. CASE PurgeAcked
    BY <1>5, <1>a, <1>b DEF PurgeAcked, HandlersFit
  <1>6. CASE Restart
    <2>1. /\ \A r \in Requests : (req'[r] = req[r] /\ req[r].pc = "idle") \/ req'[r] = Locals("end")
          /\ DOMAIN req' = Requests /\ req' = [r \in Requests |-> req'[r]]
      BY <1>6 DEF Restart
    <2>2. LocalsFit(Locals("end")) /\ Locals("end").pc = "end"
      BY DEF Locals, LocalsFit, LocalSet, Labels, Over
    <2>3. ReqsFit'
      <3>1. \A r \in Requests : LocalsFit(req'[r])
        BY <1>0, <2>1, <2>2 DEF ReqsFit
      <3>2. \A r \in Requests : req'[r] \in LocalSet
        BY <3>1 DEF LocalsFit
      <3> QED BY <2>1, <3>1, <3>2 DEF ReqsFit
    <2>4. \A r \in Requests : ~Runs(r)' /\ ~Building(r)'
      BY <2>1, <2>2 DEF Runs, Live, Building, Running, Preparing
    <2>5. UNCHANGED <<chat, slip, gen, gslip>> /\ flight' = None /\ gflight' = None /\ swept' = FALSE
      BY <1>6 DEF Restart
    <2>6. TurnIdHeld'
      BY <1>0, <2>4, <2>5 DEF TurnIdHeld
    <2>7. GenerationHeld'
      BY <1>0, <2>4, <2>5 DEF GenerationHeld
    <2> QED BY <2>3, <2>6, <2>7 DEF HandlersFit
  <1>7. CASE SweepLostToRestart
    <2>1. \A r \in Requests : Building(r)' <=> Building(r)
      BY <1>0, <1>7, RequestsStay DEF SweepLostToRestart
    <2>2. /\ gen' \in [status : {None, "running", "done", "failed"}, acked : BOOLEAN] /\ gen'.status # "running"
          /\ gen'.status = "done" => gen.status = "done"
      BY <1>0, <1>7 DEF SweepLostToRestart, GenerationHeld
    <2>3. /\ gslip' \in {"none", "race", "unregistered", "swept"} /\ (gslip' = "none" => gslip = "none")
          /\ UNCHANGED gflight
      BY <1>0, <1>7 DEF SweepLostToRestart, Slip, GenerationHeld
    <2>4. GenerationHeld'
      BY <1>0, <2>1, <2>2, <2>3 DEF GenerationHeld
    <2> QED BY <1>7, <1>a, <2>4 DEF SweepLostToRestart, HandlersFit
  <1>8. CASE UNCHANGED vars
    BY <1>8, <1>a, <1>b DEF vars, HandlersFit
  <1> QED BY <1>1, <1>2, <1>3, <1>4, <1>5, <1>6, <1>7, <1>8

(* Every step, of a request or of the world around it.                           *)
LEMMA TurnsStep == TurnsInv /\ [Next]_vars => TurnsInv'
  <1> SUFFICES ASSUME TurnsInv, [Next]_vars PROVE TurnsInv'
    OBVIOUS
  <1>0. HandlersFit /\ WorldFits
    BY DEF TurnsInv, HandlersFit
  <1>1. HandlersFit'
    <2>1. ASSUME NEW r \in Requests, Step(r) \/ \E k \in Kinds : Send(r, k) PROVE HandlersFit'
      <3>1. CASE \/ (\E k \in Kinds : Send(r, k)) \/ LookupTerminal(r) \/ LookupFails(r) \/ Admit(r) \/ Refuse(r)
        BY <1>0, <3>1, AdmissionSteps
      <3>2. CASE \/ Route(r) \/ GenerationLookup(r) \/ GenerationAdmit(r) \/ RecordStart(r) \/ RecordStartFails(r)
                 \/ Open(r) \/ Unopened(r)
        BY <1>0, <3>2, BuildSteps
      <3>3. CASE \/ \E o \in {"done", "failed", "refused", "crash"} : RunTail(r, o)
                 \/ CollectFails(r) \/ GenerationFinish(r) \/ GenerationFinishFails(r) \/ Settle(r) \/ SettleFails(r)
        BY <1>0, <3>3, TailSteps
      <3>4. CASE Finish(r) \/ FinishFails(r) \/ WallClock(r) \/ StreamEnds(r)
        BY <1>0, <3>4, EndSteps
      <3> QED BY <2>1, <3>1, <3>2, <3>3, <3>4 DEF Step
    <2> QED BY <1>0, <2>1, OtherSteps DEF Next
  <1>2. WorldFits'
    <2> USE DEF WorldFits, genVars, world
    <2>1. ASSUME NEW r \in Requests, Step(r) \/ \E k \in Kinds : Send(r, k) PROVE WorldFits'
      <3>1. UNCHANGED <<shown, swept, restarts>> /\ (UNCHANGED file \/ file' \in {"none", "staged"})
        BY <2>1 DEF Step, Send, LookupTerminal, LookupFails, Admit, Refuse, Route, GenerationLookup,
                    GenerationAdmit, AdmitBuild, RecordStart, RecordStartFails, Open, Unopened, RunTail,
                    CollectFails, GenerationFinish, GenerationFinishFails, Settle, SettleFails, Finish,
                    FinishFails, WallClock, StreamEnds
      <3> QED BY <1>0, <3>1
    <2>2. CASE Restart
      <3>1. swept' \in BOOLEAN
        BY <2>2, Zenon DEF Restart
      <3>2. restarts' \in 0..MaxRestarts
        BY <1>0, <2>2, TurnsAssumption DEF Restart
      <3> QED BY <1>0, <2>2, <3>1, <3>2 DEF Restart
    <2>3. CASE SweepLostToRestart
      <3>1. swept' \in BOOLEAN
        BY <2>3, Zenon DEF SweepLostToRestart
      <3> QED BY <1>0, <2>3, <3>1 DEF SweepLostToRestart
    <2>4. CASE Age \/ Poll \/ Expire \/ PurgeAcked \/ UNCHANGED vars
      BY <1>0, <2>4 DEF Age, Poll, Expire, PurgeAcked, vars
    <2>5. CASE Ack
      BY <1>0, <2>5 DEF Ack
    <2> QED BY <2>1, <2>2, <2>3, <2>4, <2>5 DEF Next
  <1> QED BY <1>0, <1>1, <1>2 DEF TurnsInv, HandlersFit

(* The invariant holds in every reachable state.                                    *)
LEMMA TurnsInvariant == Spec => []TurnsInv
  BY TurnsStart, TurnsStep, PTL DEF Spec

-----------------------------------------------------------------------------
(* A set whose members are all one has one at most.                              *)
LEMMA AtMostOne ==
    ASSUME NEW S, \A x, y \in S : x = y
    PROVE  Cardinality(S) <= 1
  <1>1. CASE S = {}
    BY <1>1, FS_EmptySet
  <1>2. CASE S # {}
    <2>1. PICK x \in S : S = {x}
      BY <1>2
    <2> QED BY <2>1, FS_Singleton
  <1> QED BY <1>1, <1>2

(* "In flight: do not start a second upstream call; terminal: return the stored   *)
(* body": however the sends of a turn interleave at their database visits, until   *)
(* one of the named slips a turn id is run by one request and never beside its     *)
(* answer, and a generation id is built by one.                                   *)
THEOREM TurnsRunOnce == Spec => []TurnOnce
  <1>1. TurnsInv => TurnOnce
    <2> SUFFICES ASSUME TurnsInv PROVE TurnOnce
      OBVIOUS
    <2>0. ReqsFit /\ WorldFits /\ TurnIdHeld /\ GenerationHeld
      BY DEF TurnsInv
    <2>1. TypeOK
      <3>1. /\ gflight \in Requests \cup {None} /\ gslip \in {"none", "race", "unregistered", "swept"}
            /\ gen \in [status : {None, "running", "done", "failed"}, acked : BOOLEAN]
        BY <2>0 DEF GenerationHeld
      <3>2. /\ chat \in {None, "done", "failed"} /\ slip \in {"none", "valve", "race", "released"}
            /\ flight # None => /\ flight \in [by : Requests, old : BOOLEAN]
                                /\ Live(flight.by) => req[flight.by].kind.tid
        BY <2>0 DEF TurnIdHeld, Runs, Live, Running, Preparing
      <3>3. \A r \in Requests :
              /\ req[r].pc \in {"idle", "asked", "read"} \cup Running \cup Over
              /\ req[r].kind \in Kinds \cup {None}
              /\ req[r].kind = None <=> req[r].pc \in {"idle"} \cup Over
              /\ req[r].seen \in {None, "done", "failed"}
              /\ req[r].outcome \in {None, "done", "failed", "refused", "crash"}
              /\ req[r].pc \in {"gstore", "after", "storing"} <=> req[r].outcome # None
        BY <2>0 DEF ReqsFit, LocalsFit, LocalSet, Labels
      <3> QED BY <2>0, <3>1, <3>2, <3>3 DEF TypeOK, WorldFits
    <2>2. OneCall
      <3> SUFFICES ASSUME slip = "none"
                   PROVE  /\ Cardinality({r \in Requests : Live(r) /\ req[r].kind.tid}) <= 1
                          /\ chat # None => \A r \in Requests : ~(Live(r) /\ req[r].kind.tid)
        BY DEF OneCall
      <3>1. \A r, s \in {q \in Requests : Live(q) /\ req[q].kind.tid} : r = s
        BY <2>0 DEF TurnIdHeld, Runs
      <3>2. chat # None => \A r \in Requests : ~(Live(r) /\ req[r].kind.tid)
        BY <2>0 DEF TurnIdHeld, Runs
      <3> QED BY <3>1, <3>2, AtMostOne
    <2>3. OneBuild
      <3>1. gslip = "none" => \A r, s \in {q \in Requests : Building(q)} : r = s
        BY <2>0 DEF GenerationHeld
      <3> QED BY <3>1, AtMostOne DEF OneBuild
    <2> QED BY <2>1, <2>2, <2>3 DEF TurnOnce
  <1> QED BY <1>1, TurnsInvariant, PTL

(* A registered id whose request is over was left by one of the three ways out     *)
(* that the route's wrapper does not see, whatever else was sent under it.         *)
THEOREM IdsAreReleased == Spec => []IdReleased
  <1>1. TurnsInv => IdReleased
    BY DEF TurnsInv, TurnIdHeld, Runs, IdReleased
  <1> QED BY <1>1, TurnsInvariant, PTL

(* Once the boot sweep has run, a row that says running has a request behind it,   *)
(* or one that left by an unexpected error.                                       *)
THEOREM RunningRowsAreHonest == Spec => []RunningIsHonest
  <1>1. TurnsInv => RunningIsHonest
    BY DEF TurnsInv, GenerationHeld, Holds, RunningIsHonest
  <1> QED BY <1>1, TurnsInvariant, PTL

(* A stored answer and a finished build are replaced by nothing but their expiry,   *)
(* until an id slips: no resend runs beside them.                                 *)
THEOREM AnswersAreKept == Spec => AnswerKept
  <1> DEFINE Kept == /\ chat = "done" /\ chat' # "done" => Quiet \/ slip # "none"
                     /\ gen.status = "done" /\ gen'.status # "done" => Quiet \/ gslip # "none"
  <1>1. TurnsInv /\ [Next]_vars => [Kept]_vars
    <2> SUFFICES ASSUME TurnsInv, Next PROVE Kept
      OBVIOUS
    <2>0. ReqsFit /\ TurnIdHeld /\ GenerationHeld
      BY DEF TurnsInv
    <2> USE DEF chatVars, genVars
    <2>1. ASSUME NEW r \in Requests, Finish(r) PROVE Kept
      <3>1. Runs(r) /\ UNCHANGED gen
        BY <2>0, <2>1 DEF Finish, Runs, Live, Running, ReqsFit, LocalsFit
      <3> QED BY <2>0, <3>1, KindsAre DEF TurnIdHeld
    <2>2. ASSUME NEW r \in Requests, RecordStart(r) \/ GenerationFinish(r) PROVE Kept
      <3>1. Building(r) /\ UNCHANGED chat
        BY <2>0, <2>2 DEF RecordStart, GenerationFinish, Building, ReqsFit, LocalsFit
      <3> QED BY <2>0, <3>1 DEF GenerationHeld
    <2>3. ASSUME NEW r \in Requests, Step(r) \/ \E k \in Kinds : Send(r, k),
                 ~Finish(r), ~RecordStart(r), ~GenerationFinish(r)
          PROVE  UNCHANGED <<chat, gen>>
      BY <2>3 DEF Step, Send, LookupTerminal, LookupFails, Admit, Refuse, Route, GenerationLookup,
                  GenerationAdmit, AdmitBuild, RecordStartFails, Open, Unopened, RunTail,
                  CollectFails, GenerationFinishFails, Settle, SettleFails, FinishFails, WallClock, StreamEnds
    <2>4. CASE Expire
      BY <2>4 DEF Expire
    <2>5. CASE Ack \/ SweepLostToRestart
      <3>1. UNCHANGED chat /\ (gen.status = "done" => gen'.status = "done")
        BY <2>0, <2>5 DEF Ack, SweepLostToRestart, GenerationHeld
      <3> QED BY <3>1
    <2>6. CASE Age \/ Poll \/ PurgeAcked \/ Restart
      BY <2>6 DEF Age, Poll, PurgeAcked, Restart
    <2> QED BY <2>1, <2>2, <2>3, <2>4, <2>5, <2>6 DEF Next
  <1> QED BY <1>1, TurnsInvariant, PTL DEF Spec, AnswerKept
=============================================================================
