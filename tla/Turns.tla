-------------------------------- MODULE Turns --------------------------------
(***************************************************************************)
(* Turn and generation ids: how a resend of POST /v1/chat is answered       *)
(* without a second model call.                                             *)
(*                                                                         *)
(* One user, one turn_id and one generation_id, which every request of      *)
(* Requests may carry: the original send and its resends.  A turn id lives  *)
(* in two places: the in-memory map of chat_turns (`flight`) while a        *)
(* request runs it, and the chat_turns row (`chat`) once it has an answer;   *)
(* a generation id likewise (`gflight`, `gen`).  The code between two awaits *)
(* is one step, so the map is never seen half changed; every visit of the   *)
(* database is a step of its own, and that is where requests interleave.    *)
(***************************************************************************)
EXTENDS Naturals, FiniteSets

CONSTANTS
    Requests,    \* the sends of one user's turn
    Kinds,       \* the kinds of request a client sends: a subset of Kind
    MaxRestarts, \* bound on process restarts
    None

(* via: plain JSON, the heartbeat transport of builds and Project Chat, the   *)
(* N-400 sentence stream, or the token stream; build: the turn is armed and   *)
(* carries the generation id; tid: it carries the turn id.                    *)
Kind == {k \in [via : {"json", "sse", "n400", "stream"}, build : BOOLEAN, tid : BOOLEAN] :
            k.build => k.via \in {"json", "sse"}}

ASSUME TurnsAssumption ==
    /\ Kinds \subseteq Kind
    /\ MaxRestarts \in Nat
    /\ None \notin Requests \cup Kind \cup {"running", "done", "failed", "refused", "crash"}
    /\ None \notin [by : Requests, old : BOOLEAN]

VARIABLES
    req,      \* [Requests -> the handler's locals: where it is, its kind, the
              \*  status its last lookup found, how its turn ended]
    flight,   \* chat_turns._IN_FLIGHT: [by, old], or None
    chat,     \* the unexpired chat_turns row: its status, or None
    gflight,  \* generation_turns._IN_FLIGHT: the registering request, or None
    gen,      \* the generations row: [status, acked]; status None is no row
    file,     \* the file the row points at: "none", "staged" or "purged"
    swept,    \* sweep_lost_to_restart has run in this process
    restarts,
    shown,    \* history: the status the client last acknowledged
    slip,     \* history: the first way two requests came to run one turn id
    gslip     \* history: the same for the generation id

chatVars  == <<flight, chat, slip>>
genVars   == <<gflight, gen, file, shown, gslip>>
world     == <<swept, restarts>>
vars      == <<req, chatVars, genVars, world>>

Preparing == {"gates", "gasked", "gread", "gstart", "opened"}
Running   == Preparing \cup {"tail", "gstore", "after", "storing", "streaming"}
Over      == {"end", "unopened", "cut", "streamed", "stuck", "lost"}

Locals(label) == [pc |-> label, kind |-> None, seen |-> None, outcome |-> None]

Live(r)     == req[r].pc \in Running
Building(r) == /\ req[r].pc \in {"gstart", "opened", "tail", "gstore"}
               /\ req[r].kind.build
NoRow       == [status |-> None, acked |-> FALSE]
Quiet       == \A r \in Requests : req[r].pc \in {"idle"} \cup Over

(* The first cause is kept.                                                  *)
Slip(s, happens, cause) == IF s = "none" /\ happens THEN cause ELSE s

Init ==
    /\ req = [r \in Requests |-> Locals("idle")]
    /\ flight = None /\ chat = None
    /\ gflight = None /\ gen = NoRow /\ file = "none"
    /\ swept = FALSE /\ restarts = 0
    /\ shown = None /\ slip = "none" /\ gslip = "none"

(* A handler's next step; its lookup has been used.                          *)
Goto(r, label) == req' = [req EXCEPT ![r].pc = label, ![r].seen = None]

(* A lookup has returned.                                                    *)
Found(r, status, label) == req' = [req EXCEPT ![r].pc = label, ![r].seen = status]

(* The request is over.                                                      *)
Leave(r, label) == req' = [req EXCEPT ![r] = Locals(label)]

-----------------------------------------------------------------------------
(* chat_turns: the in-memory map.                                            *)

(* _IN_FLIGHT.pop by request r, whoever registered the entry.                *)
Pop(r, cause) ==
    /\ flight' = None
    /\ slip' = Slip(slip, flight # None /\ flight.by # r /\ Live(flight.by), cause)

(* Faulty variants: no leak valve; a registry nobody reads.                  *)
RunningForever == flight
RunningNever == None

(* What the id reads as: an entry older than 240 s is dropped by the read.   *)
RunningInfo == IF flight # None /\ ~flight.old THEN flight ELSE None

(* begin after running_info found nothing.                                   *)
Begin(r) ==
    /\ flight' = [by |-> r, old |-> FALSE]
    /\ slip' = Slip(Slip(slip, flight # None /\ flight.old /\ Live(flight.by), "valve"),
                    chat # req[r].seen \/ \E s \in Requests : req[s].pc = "storing", "race")

(* Faulty variant: a route without its wrapper.                              *)
ReleaseNothing(r) == UNCHANGED <<flight, slip>>

(* The route wrapper: an exception, or a plain response not marked as another *)
(* request's, drops the id's entry.                                          *)
Release(r) ==
    IF req[r].kind.tid THEN Pop(r, "released") ELSE UNCHANGED <<flight, slip>>

(* _run_turn_tracked inside a task: no wrapper follows.                      *)
Abandon(r) == Release(r)

-----------------------------------------------------------------------------
(* The request, up to its upstream call.                                     *)

(* POST /v1/chat; without a turn id there is nothing to look up.             *)
Send(r, k) ==
    /\ req[r].pc = "idle"
    /\ req' = [req EXCEPT ![r].kind = k, ![r].pc = IF k.tid THEN "asked" ELSE "gates"]
    /\ UNCHANGED <<chatVars, genVars, world>>

(* lookup_terminal's SELECT.                                                 *)
LookupTerminal(r) ==
    /\ req[r].pc = "asked"
    /\ Found(r, chat, "read")
    /\ UNCHANGED <<chatVars, genVars, world>>

(* The SELECT raises: the wrapper releases an id this request never registered. *)
LookupFails(r) ==
    /\ req[r].pc = "asked"
    /\ Release(r)
    /\ Leave(r, "end")
    /\ UNCHANGED <<chat, genVars, world>>

(* The idempotency block, after the lookup: replay the stored answer (and be *)
(* released by the wrapper like any plain response), answer turn_in_progress,*)
(* or register.                                                              *)
Admit(r) ==
    /\ req[r].pc = "read"
    /\ \/ /\ req[r].seen # None
          /\ Release(r)
          /\ Leave(r, "end")
       \/ /\ req[r].seen = None /\ RunningInfo # None
          /\ Leave(r, "end")
          /\ UNCHANGED <<flight, slip>>
       \/ /\ req[r].seen = None /\ RunningInfo = None
          /\ Begin(r)
          /\ Goto(r, "gates")
    /\ UNCHANGED <<chat, genVars, world>>

(* Every gate between the registration and the call: tier, policy, rate,     *)
(* budget, validation, a canned answer or an offer.                          *)
Refuse(r) ==
    /\ req[r].pc = "gates"
    /\ Release(r)
    /\ Leave(r, "end")
    /\ UNCHANGED <<chat, genVars, world>>

(* json runs the turn in the handler; sse and n400 return a StreamingResponse *)
(* whose generator will start it.                                            *)
Ready(r) == IF req[r].kind.via = "json" THEN "tail" ELSE "opened"

(* Which way the turn goes.                                                  *)
Route(r) ==
    /\ req[r].pc = "gates"
    /\ Goto(r, CASE req[r].kind.via = "stream" -> "streaming"
                 [] req[r].kind.build          -> "gasked"
                 [] OTHER                  -> Ready(r))
    /\ UNCHANGED <<chatVars, genVars, world>>

(* generation_turns.lookup_terminal: running rows are not terminal.          *)
GenTerminal == IF gen.status = "running" THEN None ELSE gen.status

GenerationLookup(r) ==
    /\ req[r].pc = "gasked"
    /\ Found(r, GenTerminal, "gread")
    /\ UNCHANGED <<chatVars, genVars, world>>

(* What the lookup found is no longer so; a request is building already.     *)
Outdated(r) == GenTerminal # req[r].seen
SomeBuild   == \E s \in Requests : Building(s)

(* The generation block: answer without building (`answered`), register a new *)
(* build (`fresh`), or build unregistered (`retried`).                       *)
AdmitBuild(r, answered, fresh, retried) ==
    /\ req[r].pc = "gread"
    /\ \/ /\ answered
          /\ Release(r)
          /\ Leave(r, "end")
          /\ UNCHANGED <<gflight, gslip>>
       \/ /\ fresh
          /\ gflight' = r
          /\ gslip' = Slip(gslip, Outdated(r) \/ (gflight = None /\ SomeBuild), "race")
          /\ Goto(r, "gstart")
          /\ UNCHANGED <<flight, slip>>
       \/ /\ retried
          /\ gslip' = Slip(gslip, Outdated(r) \/ SomeBuild, "unregistered")
          /\ Goto(r, Ready(r))
          /\ UNCHANGED <<flight, slip, gflight>>
    /\ UNCHANGED <<chat, gen, file, shown, world>>

(* Faulty variants: nothing answers 409; a done build is rebuilt.            *)
AdmitRunning(r) ==
    AdmitBuild(r, req[r].seen = "done", req[r].seen = None, req[r].seen = "failed")
AdmitDone(r) ==
    AdmitBuild(r, req[r].seen = None /\ gflight # None,
               req[r].seen = None /\ gflight = None, req[r].seen # None)

(* A done build is replayed and a registered one answers 409.  A stored       *)
(* failure falls through: the resend is the retry, and is not registered.    *)
GenerationAdmit(r) ==
    AdmitBuild(r, req[r].seen = "done" \/ (req[r].seen = None /\ gflight # None),
               req[r].seen = None /\ gflight = None, req[r].seen = "failed")

(* record_start: INSERT OR REPLACE of a running row, unacknowledged, with no *)
(* files.                                                                    *)
RecordStart(r) ==
    /\ req[r].pc = "gstart"
    /\ gen' = [status |-> "running", acked |-> FALSE]
    /\ file' = "none"
    /\ Goto(r, Ready(r))
    /\ UNCHANGED <<chatVars, gflight, shown, gslip, world>>

(* It raises: the wrapper releases the turn id, nothing releases the         *)
(* generation id.                                                            *)
RecordStartFails(r) ==
    /\ req[r].pc = "gstart"
    /\ Release(r)
    /\ Leave(r, "stuck")
    /\ UNCHANGED <<chat, genVars, world>>

(* The response generator starts the turn's task, or is torn down before its *)
(* first iteration, when nothing owns the ids any more.                      *)
Open(r) ==
    /\ req[r].pc = "opened"
    /\ Goto(r, "tail")
    /\ UNCHANGED <<chatVars, genVars, world>>

Unopened(r) ==
    /\ req[r].pc = "opened"
    /\ Leave(r, "unopened")
    /\ UNCHANGED <<chatVars, genVars, world>>

-----------------------------------------------------------------------------
(* The turn itself.                                                          *)

(* _run_turn_tail up to the generation record: the answer arrives ("done"),  *)
(* a typed failure after something was billed ("failed") or before           *)
(* ("refused"), or any other exception ("crash").  A build pops its          *)
(* generation id on the way into generation_turns.finish.                    *)
RunTail(r, o) ==
    /\ req[r].pc = "tail"
    /\ gflight' = IF req[r].kind.build THEN None ELSE gflight
    /\ req' = [req EXCEPT ![r].outcome = o,
                          ![r].pc = IF req[r].kind.build THEN "gstore" ELSE "after"]
    /\ UNCHANGED <<chatVars, gen, file, shown, gslip, world>>

(* Collecting the build's files raises: no finish is reached, the turn id is  *)
(* abandoned, the generation id stays registered.                            *)
CollectFails(r) ==
    /\ req[r].pc = "tail" /\ req[r].kind.build
    /\ Abandon(r)
    /\ Leave(r, "stuck")
    /\ UNCHANGED <<chat, genVars, world>>

(* Faulty variant: the failure is stored under its own name.                 *)
FinishRaw(r) ==
    /\ req[r].pc = "gstore"
    /\ gen' = [gen EXCEPT !.status = req[r].outcome]
    /\ file' = IF req[r].outcome = "done" THEN "staged" ELSE "none"
    /\ Goto(r, "after")
    /\ UNCHANGED <<chatVars, gflight, shown, gslip, world>>

(* generation_turns.finish: UPDATE, or INSERT when the row is gone; acked_at  *)
(* is not touched by the UPDATE.  A done build has staged a file (one that    *)
(* answered with text alone has nothing to keep).                            *)
GenerationFinish(r) ==
    /\ req[r].pc = "gstore"
    /\ gen' = [gen EXCEPT !.status = IF req[r].outcome = "done" THEN "done" ELSE "failed"]
    /\ file' = IF req[r].outcome = "done" THEN "staged" ELSE "none"
    /\ Goto(r, "after")
    /\ UNCHANGED <<chatVars, gflight, shown, gslip, world>>

(* The UPDATE raises: the entry is gone and the row stays as it was.         *)
GenerationFinishFails(r) ==
    /\ req[r].pc = "gstore"
    /\ Abandon(r)
    /\ Leave(r, "lost")
    /\ UNCHANGED <<chat, genVars, world>>

(* _run_turn_tracked: an answer and a billed failure go to finish, which pops *)
(* the entry before its INSERT; anything else abandons the id.               *)
Settle(r) ==
    /\ req[r].pc = "after"
    /\ IF req[r].kind.tid /\ req[r].outcome \in {"done", "failed"}
         THEN Pop(r, "released") /\ Goto(r, "storing")
         ELSE Abandon(r) /\ Leave(r, "end")
    /\ UNCHANGED <<chat, genVars, world>>

(* Metering, logging or a hook raises after the answer: abandoned as well.   *)
SettleFails(r) ==
    /\ req[r].pc = "after"
    /\ req[r].outcome = "done"
    /\ Abandon(r)
    /\ Leave(r, "end")
    /\ UNCHANGED <<chat, genVars, world>>

(* finish: INSERT OR REPLACE and commit.  The JSON path then returns through *)
(* the wrapper, which releases the id again.                                 *)
Finish(r) ==
    /\ req[r].pc = "storing"
    /\ chat' = req[r].outcome
    /\ IF req[r].kind.via = "json" THEN Release(r) ELSE UNCHANGED <<flight, slip>>
    /\ Leave(r, "end")
    /\ UNCHANGED <<genVars, world>>

(* The INSERT raises: the entry is gone and there is no row.                 *)
FinishFails(r) ==
    /\ req[r].pc = "storing"
    /\ IF req[r].kind.via = "json" THEN Release(r) ELSE UNCHANGED <<flight, slip>>
    /\ Leave(r, "end")
    /\ UNCHANGED <<chat, genVars, world>>

(* The N-400 stream's wall clock cancels the task.  CancelledError is not an  *)
(* Exception, so nothing releases the id.                                    *)
WallClock(r) ==
    /\ req[r].pc \in {"tail", "after", "storing"}
    /\ req[r].kind.via = "n400"
    /\ Leave(r, "cut")
    /\ UNCHANGED <<chatVars, genVars, world>>

(* The token stream ends, fails, times out or loses its client: _handle_stream *)
(* never touches the id.                                                     *)
StreamEnds(r) ==
    /\ req[r].pc = "streaming"
    /\ Leave(r, "streamed")
    /\ UNCHANGED <<chatVars, genVars, world>>

-----------------------------------------------------------------------------
(* Time, the client's other calls, and the process.                          *)

(* 240 s pass since the registration.  The two capped streams are over by    *)
(* then; a JSON turn or a build may still be running.                        *)
Age ==
    /\ flight # None /\ ~flight.old
    /\ ~(Live(flight.by) /\ req[flight.by].kind.via \in {"n400", "stream"})
    /\ flight' = [flight EXCEPT !.old = TRUE]
    /\ UNCHANGED <<req, chat, slip, genVars, world>>

(* GET /v1/chat/turns/{id}: reading a stale entry drops it.                  *)
Poll ==
    /\ flight # None /\ RunningInfo = None
    /\ Pop(None, "valve")
    /\ UNCHANGED <<req, chat, genVars, world>>

(* Rows outlive every request by hours: they expire when nothing runs.       *)
Expire ==
    /\ Quiet
    /\ \/ /\ chat # None
          /\ chat' = None
          /\ UNCHANGED genVars
       \/ /\ gen.status # None
          /\ gen' = NoRow /\ file' = "none" /\ shown' = None
          /\ UNCHANGED <<chat, gflight, gslip>>
    /\ UNCHANGED <<req, flight, slip, world>>

(* POST /v1/generations/{id}/ack: the first one marks a terminal row.        *)
Ack ==
    /\ gen.status \in {"done", "failed"} /\ ~gen.acked
    /\ gen' = [gen EXCEPT !.acked = TRUE]
    /\ shown' = gen.status
    /\ UNCHANGED <<req, chatVars, gflight, file, gslip, world>>

(* stage() of another build finds the user over the 50 MB cap and deletes the *)
(* files of acknowledged generations.                                        *)
PurgeAcked ==
    /\ file = "staged" /\ gen.acked
    /\ file' = "purged"
    /\ UNCHANGED <<req, chatVars, gflight, gen, shown, gslip, world>>

(* The process dies and starts again: the maps and the requests are gone.    *)
Restart ==
    /\ restarts < MaxRestarts
    /\ restarts' = restarts + 1
    /\ swept' = FALSE
    /\ req' = [r \in Requests |-> IF req[r].pc = "idle" THEN req[r] ELSE Locals("end")]
    /\ flight' = None /\ gflight' = None
    /\ UNCHANGED <<chat, slip, gen, file, shown, gslip>>

(* Faulty variant: the boot sweep leaves the rows alone.                     *)
SweepNothing ==
    /\ ~swept
    /\ swept' = TRUE
    /\ UNCHANGED <<req, chatVars, genVars, restarts>>

(* sweep_lost_to_restart: the first pass of the sweep loop, which starts with *)
(* the server and does not wait for it.                                      *)
SweepLostToRestart ==
    /\ ~swept
    /\ swept' = TRUE
    /\ gen' = IF gen.status = "running" THEN [gen EXCEPT !.status = "failed"] ELSE gen
    /\ gslip' = Slip(gslip, gen.status = "running" /\ \E r \in Requests : Building(r), "swept")
    /\ UNCHANGED <<req, chatVars, gflight, file, shown, restarts>>

Step(r) ==
    \/ LookupTerminal(r) \/ LookupFails(r) \/ Admit(r) \/ Refuse(r) \/ Route(r)
    \/ GenerationLookup(r) \/ GenerationAdmit(r) \/ RecordStart(r) \/ RecordStartFails(r)
    \/ Open(r) \/ Unopened(r)
    \/ \E o \in {"done", "failed", "refused", "crash"} : RunTail(r, o)
    \/ CollectFails(r) \/ GenerationFinish(r) \/ GenerationFinishFails(r)
    \/ Settle(r) \/ SettleFails(r) \/ Finish(r) \/ FinishFails(r)
    \/ WallClock(r) \/ StreamEnds(r)

Next ==
    \/ \E r \in Requests : Step(r) \/ \E k \in Kinds : Send(r, k)
    \/ Age \/ Poll \/ Expire \/ Ack \/ PurgeAcked \/ Restart \/ SweepLostToRestart

Spec == Init /\ [][Next]_vars

(* Time passes, and the client of an unanswered turn keeps polling           *)
(* (poll_after_seconds).                                                     *)
FairSpec == Spec /\ WF_vars(Age) /\ WF_vars(Poll)

-----------------------------------------------------------------------------
(* Properties.                                                               *)

(* The two maps, the two rows and the requests' locals keep their types, and *)
(* only a request that has been sent owns an entry.                          *)
TypeOK ==
    /\ \A r \in Requests :
         /\ req[r].pc \in {"idle", "asked", "read"} \cup Running \cup Over
         /\ req[r].kind \in Kinds \cup {None}
         /\ req[r].kind = None <=> req[r].pc \in {"idle"} \cup Over
         /\ req[r].seen \in {None, "done", "failed"}
         /\ req[r].outcome \in {None, "done", "failed", "refused", "crash"}
         /\ req[r].pc \in {"gstore", "after", "storing"} <=> req[r].outcome # None
    /\ flight # None => /\ flight \in [by : Requests, old : BOOLEAN]
                        /\ Live(flight.by) => req[flight.by].kind.tid
    /\ chat \in {None, "done", "failed"}
    /\ gflight \in Requests \cup {None}
    /\ gen \in [status : {None, "running", "done", "failed"}, acked : BOOLEAN]
    /\ file \in {"none", "staged", "purged"}
    /\ swept \in BOOLEAN /\ restarts \in 0..MaxRestarts
    /\ shown \in {None, "done", "failed"}
    /\ slip \in {"none", "valve", "race", "released"}
    /\ gslip \in {"none", "race", "unregistered", "swept"}

(* "in flight -> do NOT start a second upstream call; terminal -> return the *)
(* stored body, no second bill": of one turn id, at most one request runs and *)
(* none does beside a stored answer, except through one of the named slips.  *)
(* The slips: a lookup that straddles another request's finish ("race"), a    *)
(* turn still running after 240 s ("valve"), and a request that fails before  *)
(* it registers and so releases another's id ("released").                   *)
OneCall ==
    slip = "none" =>
        /\ Cardinality({r \in Requests : Live(r) /\ req[r].kind.tid}) <= 1
        /\ chat # None => \A r \in Requests : ~(Live(r) /\ req[r].kind.tid)

(* "this exists to release a registered turn id on every way out of the      *)
(* handler that did NOT run the turn": an entry whose request is over was    *)
(* left by one of the three ways out the wrapper does not see: a generator   *)
(* that never started, a cancelled N-400 turn, or a token stream.            *)
IdReleased ==
    flight # None => Live(flight.by) \/ req[flight.by].pc \in {"unopened", "cut", "streamed"}

(* A stranded id heals: while the client keeps asking, the entry of a request *)
(* that is over does not stay.                                               *)
Stranded == flight # None /\ ~Live(flight.by)
IdHeals == Stranded ~> ~Stranded

(* "a running row this process does not know is lost to a restart and waits  *)
(* for the sweep": once the sweep has run, a row reads running only while a   *)
(* request builds it, or after one that left by an unexpected error.         *)
RunningIsHonest ==
    swept /\ gen.status = "running" =>
        \E r \in Requests : Building(r) \/ req[r].pc \in {"unopened", "stuck", "lost"}

(* "a still-running id 409s": one generation id is built by one request at a *)
(* time, except through a slip: a lookup that straddles another's finish, a  *)
(* resend of a failed build while its retry runs, a sweep of a live row.     *)
OneBuild ==
    gslip = "none" => Cardinality({r \in Requests : Building(r)}) <= 1

(* An answer that has been stored is the answer until it expires: no later    *)
(* request of the same id replaces it, unless an id slipped.                  *)
AnswerKept ==
    [][/\ chat = "done" /\ chat' # "done" => Quiet \/ slip # "none"
       /\ gen.status = "done" /\ gen'.status # "done" => Quiet \/ gslip # "none"]_vars

(* "Files the client has already ACKED (presented and ingested) go first": a *)
(* file is deleted for space only after its build was presented, even when   *)
(* no two builds of the id ever overlapped.                                  *)
UnseenFileKept == gslip = "none" /\ file = "purged" => shown = "done"

(* A turn is run once and a file is built once, whatever is resent.          *)
TurnOnce == TypeOK /\ OneCall /\ OneBuild
=============================================================================
