------------------------------- MODULE Shares -------------------------------
(***************************************************************************)
(* Meetings shared by link.  The archive is a file beside a row; the page's *)
(* player and the preview card add files of their own beside it.  Owners    *)
(* create and revoke, an hourly sweep purges, a deleted account takes its   *)
(* shares along, and readers come in at any of their awaits.  The routes    *)
(* that only read (page, archive, image) change no state and are left out.  *)
(***************************************************************************)
EXTENDS Integers, FiniteSets

CONSTANTS
    ShareIds,     \* share ids that may be drawn
    Handlers,     \* requests and sweeps that may overlap
    DayCap,       \* tier_share_caps()["creations_per_day"]
    ExpiryDays,   \* days a share lives
    MaxShareDays, \* bound: days
    MaxCrashes,   \* bound: restarts of the process
    NoShare

ASSUME SharesAssumption ==
    /\ DayCap \in Nat \ {0} /\ ExpiryDays \in Nat \ {0} /\ MaxShareDays \in Nat /\ MaxCrashes \in Nat
    /\ IsFiniteSet(ShareIds)

VARIABLES
    shares,    \* meeting_shares, by id; state "new", "held" or "gone"
    volume,    \* files under SHARE_DIR: <<id, part>>
    hands,     \* what each handler is doing
    sday,      \* now
    crashes,   \* restarts so far
    overlap,   \* history: an upload began while another was in hand
    leaked     \* history: files that a named gap left behind

shareVars == <<shares, volume, hands, sday, crashes, overlap, leaked>>

Sidecars == {"audio", "card"}
Files(i, parts) == {i} \X parts
Idle == [op |-> "idle", at |-> "idle", id |-> NoShare, sweep |-> {}]

Row(state, path) == [state |-> state, created |-> IF path THEN sday ELSE 0, revoked |-> FALSE, path |-> path]
Gone == Row("gone", FALSE)

SharesInit ==
    /\ shares = [i \in ShareIds |-> Row("new", FALSE)]
    /\ volume = {} /\ hands = [h \in Handlers |-> Idle]
    /\ sday = 0 /\ crashes = 0 /\ overlap = FALSE /\ leaked = {}
----------------------------------------------------------------------------
Hand(h, op, at, i) == hands' = [hands EXCEPT ![h] = [op |-> op, at |-> at, id |-> i, sweep |-> {}]]
Done(h) == hands' = [hands EXCEPT ![h] = Idle]
Uploads == {h \in Handlers : hands[h].op = "create"}
Expired(s) == sday >= s.created + ExpiryDays

is_live(s) == s.state = "held" /\ ~s.revoked /\ ~Expired(s)

(* Faulty variant: a revoked share no longer counts against the day.          *)
CountsLiveRows(S) == Cardinality({i \in ShareIds : is_live(S[i]) /\ S[i].created = sday})

creations_today(S) == Cardinality({i \in ShareIds : S[i].state = "held" /\ S[i].created = sday})

(* The count is read, then the archive comes in over many awaits.              *)
create_share(h) ==
    /\ hands[h] = Idle /\ creations_today(shares) < DayCap
    /\ overlap' = (overlap \/ Uploads # {})
    /\ Hand(h, "create", "uploading", NoShare)
    /\ UNCHANGED <<shares, volume, sday, crashes, leaked>>

(* Empty, too large, or a header that is not percent-encoded.                  *)
_read_archive_refuses(h) ==
    /\ hands[h].at = "uploading"
    /\ Done(h) /\ UNCHANGED <<shares, volume, sday, crashes, overlap, leaked>>

FreshIds ==
    {i \in ShareIds : /\ shares[i].state = "new" /\ \A f \in volume : f[1] # i
                      /\ \A g \in Handlers : hands[g].op = "create" => hands[g].id # i}

(* The archive gets an id nobody has.                                          *)
write_archive(h) ==
    LET i == CHOOSE x \in FreshIds : TRUE IN
    /\ hands[h].at = "uploading" /\ FreshIds # {}
    /\ volume' = volume \cup {<<i, "archive">>}
    /\ Hand(h, "create", "inserting", i)
    /\ UNCHANGED <<shares, sday, crashes, overlap, leaked>>

insert_share(h) ==
    /\ hands[h].at = "inserting"
    /\ shares' = [shares EXCEPT ![hands[h].id] = Row("held", TRUE)]
    /\ Done(h) /\ UNCHANGED <<volume, sday, crashes, overlap, leaked>>

(* The row cannot be written: nothing removes the archive.                     *)
insert_fails(h) ==
    /\ hands[h].at = "inserting"
    /\ leaked' = leaked \cup {<<hands[h].id, "archive">>}
    /\ Done(h) /\ UNCHANGED <<shares, volume, sday, crashes, overlap>>

(* revoke deletes the archive, then marks the row and forgets where the bytes  *)
(* were: the sidecars can no longer be found by the sweep, nor can an archive  *)
(* whose deletion the volume refused, which is logged and passed over.         *)
revoke_unlinks(h, i, refused) ==
    LET archive == IF shares[i].path THEN volume \cap Files(i, {"archive"}) ELSE {} IN
    /\ hands[h] = Idle /\ shares[i].state = "held"
    /\ refused \subseteq archive
    /\ volume' = volume \ (archive \ refused) /\ leaked' = (leaked \ archive) \cup refused
    /\ Hand(h, "revoke", "marking", i)
    /\ UNCHANGED <<shares, sday, crashes, overlap>>

revoke_marks(h) ==
    LET i == hands[h].id IN
    /\ hands[h].at = "marking"
    /\ shares[i].state = "held" => shares' = [shares EXCEPT ![i].revoked = TRUE, ![i].path = FALSE]
    /\ shares[i].state # "held" => UNCHANGED shares
    /\ leaked' = leaked \cup (volume \cap Files(i, Sidecars))
    /\ Done(h) /\ UNCHANGED <<volume, sday, crashes, overlap>>

purge_reads(h) ==
    LET rows == {i \in ShareIds : shares[i].state = "held" /\ (Expired(shares[i]) \/ shares[i].revoked)} IN
    /\ hands[h] = Idle /\ rows # {} /\ \A g \in Handlers : hands[g].op # "purge"
    /\ hands' = [hands EXCEPT ![h] = [op |-> "purge", at |-> "unlinking", id |-> NoShare,
                                      sweep |-> {[id |-> i, path |-> shares[i].path] : i \in rows}]]
    /\ UNCHANGED <<shares, volume, sday, crashes, overlap, leaked>>

(* Faulty variant: only the archive is removed.                                 *)
ArchiveOnly(r) == IF r.path THEN {<<r.id, "archive">>} ELSE {}

purged_files(r) == IF r.path THEN Files(r.id, {"archive"} \cup Sidecars) ELSE {}

(* Within a share the archive goes first, then the player's file, then the card;*)
(* the first refusal ends the share's turn, and its row is deleted all the same.*)
InOrder(kept) ==
    \A f \in kept : /\ f[2] = "archive" => volume \cap Files(f[1], Sidecars) \subseteq kept
                    /\ f[2] = "audio" => volume \cap Files(f[1], {"card"}) \subseteq kept

purge_unlinks(h, kept) ==
    LET gone == UNION {purged_files(r) : r \in hands[h].sweep} IN
    /\ hands[h].at = "unlinking"
    /\ kept \subseteq gone \cap volume /\ InOrder(kept)
    /\ volume' = volume \ (gone \ kept) /\ leaked' = (leaked \ gone) \cup kept
    /\ hands' = [hands EXCEPT ![h].at = "deleting"]
    /\ UNCHANGED <<shares, sday, crashes, overlap>>

purge_deletes(h) ==
    LET ids == {r.id : r \in hands[h].sweep} IN
    /\ hands[h].at = "deleting"
    /\ shares' = [i \in ShareIds |-> IF i \in ids THEN Gone ELSE shares[i]]
    /\ Done(h) /\ UNCHANGED <<volume, sday, crashes, overlap, leaked>>

(* Deleting the account removes each row's archive, but for the ones the volume *)
(* refuses, and the rows, no sidecar.  An upload in hand goes on beside it.      *)
_unlink_staged_files(kept) ==
    LET own == {i \in ShareIds : shares[i].state = "held"}
        archives == {<<i, "archive">> : i \in {x \in own : shares[x].path}} IN
    /\ own # {} /\ kept \subseteq archives \cap volume
    /\ volume' = volume \ (archives \ kept)
    /\ leaked' = (leaked \ archives) \cup kept \cup (volume \cap (own \X Sidecars))
    /\ shares' = [i \in ShareIds |-> IF i \in own THEN Gone ELSE shares[i]]
    /\ UNCHANGED <<hands, sday, crashes, overlap>>
----------------------------------------------------------------------------
(* A reader that writes beside the archive has the row in hand before that.      *)
reader_begins(h, op, i) ==
    /\ hands[h] = Idle /\ is_live(shares[i])
    /\ Hand(h, op, "reading", i)
    /\ UNCHANGED <<shares, volume, sday, crashes, overlap, leaked>>

(* The player's file is extracted beside the archive the first time, beside one *)
(* that was left behind as well.                                                *)
share_audio(h) ==
    LET i == hands[h].id  archive == <<i, "archive">>  audio == <<i, "audio">> IN
    /\ hands[h].op = "audio" /\ hands[h].at = "reading"
    /\ volume' = IF archive \in volume THEN volume \cup {audio} ELSE volume
    /\ leaked' = IF archive \in volume \cap leaked THEN leaked \cup {audio} ELSE leaked
    /\ Done(h) /\ UNCHANGED <<shares, sday, crashes, overlap>>

(* The card is drawn after a translation; nobody looks at the row again.        *)
share_card(h) ==
    /\ hands[h].op = "card" /\ hands[h].at = "reading"
    /\ <<hands[h].id, "card">> \in volume => Done(h)
    /\ <<hands[h].id, "card">> \notin volume => Hand(h, "card", "translating", hands[h].id)
    /\ UNCHANGED <<shares, volume, sday, crashes, overlap, leaked>>

write_card(h) ==
    LET card == <<hands[h].id, "card">> IN
    /\ hands[h].at = "translating"
    /\ volume' = volume \cup {card}
    /\ leaked' = IF <<hands[h].id, "archive">> \in volume \ leaked THEN leaked ELSE leaked \cup {card}
    /\ Done(h) /\ UNCHANGED <<shares, sday, crashes, overlap>>
----------------------------------------------------------------------------
ShareDay ==
    /\ sday < MaxShareDays
    /\ sday' = sday + 1 /\ overlap' = (overlap /\ Uploads # {})
    /\ UNCHANGED <<shares, volume, hands, crashes, leaked>>

(* Every handler is lost; what is on the volume and in the table stays.         *)
ShareRestart ==
    LET halfway == {h \in Handlers : hands[h].at = "inserting"} IN
    /\ crashes < MaxCrashes
    /\ crashes' = crashes + 1
    /\ hands' = [h \in Handlers |-> Idle]
    /\ leaked' = leaked \cup {<<hands[h].id, "archive">> : h \in halfway}
    /\ UNCHANGED <<shares, volume, sday, overlap>>

SharesNext ==
    \/ \E h \in Handlers :
         \/ create_share(h) \/ _read_archive_refuses(h) \/ write_archive(h) \/ insert_share(h) \/ insert_fails(h)
         \/ revoke_marks(h) \/ purge_reads(h) \/ purge_deletes(h)
         \/ share_audio(h) \/ share_card(h) \/ write_card(h)
         \/ \E i \in ShareIds :
              \/ \E refused \in SUBSET Files(i, {"archive"}) : revoke_unlinks(h, i, refused)
              \/ \E op \in {"audio", "card"} : reader_begins(h, op, i)
         \/ \E kept \in SUBSET volume : purge_unlinks(h, kept)
    \/ \E kept \in SUBSET volume : _unlink_staged_files(kept)
    \/ ShareDay \/ ShareRestart
----------------------------------------------------------------------------
(* Every file on the volume is one the sweep will still find: its row is held   *)
(* and keeps the path, or its upload or its purge is under way.  Left out are   *)
(* the files that revoking, deleting the account, a late card, an insert that   *)
(* never happened or a deletion that the volume refused have left behind.       *)
FilesAccounted ==
    \A f \in volume \ leaked :
        \/ shares[f[1]].state = "held" /\ shares[f[1]].path
        \/ \E h \in Handlers : hands[h].at = "inserting" /\ hands[h].id = f[1]

(* Uploads that never overlap make no more shares in a day than the cap allows,  *)
(* whatever is revoked in between; rows a purge or a deletion took out of the    *)
(* table are out of the count as well.                                          *)
DayCapKept ==
    ~overlap => Cardinality({i \in ShareIds : shares[i].state = "held" /\ shares[i].created = sday}) <= DayCap

SharesKept == FilesAccounted /\ DayCapKept

(* meeting_shares.purge_expired and the audio route say that a sidecar dies     *)
(* with the share and never outlives its bytes: a player's file on the volume   *)
(* belongs to a share that still has its row or its archive.                    *)
SidecarsDieWithShare ==
    \A i \in ShareIds : <<i, "audio">> \in volume => shares[i].state = "held" \/ <<i, "archive">> \in volume
=============================================================================
