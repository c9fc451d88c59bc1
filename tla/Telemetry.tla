------------------------------ MODULE Telemetry ------------------------------
(***************************************************************************)
(* Lifecycle pings of one phone and of a device older than the table of      *)
(* first sightings.  Starts are sent once; stops are queued on the phone and *)
(* sent until an answer arrives, so the same stop may be handled twice, even *)
(* at the same time.  Raw rows are purged hourly once they are too old, and  *)
(* at every boot the daily figures of a trailing window are computed again   *)
(* from the raw rows that are left.                                          *)
(***************************************************************************)
EXTENDS Integers, FiniteSets

CONSTANTS
    Recordings,  \* meeting ids the phone may mint
    Copies,      \* handlers of /events/ping that may run at once
    RawDays,     \* SWEEPS: days a raw row is kept
    Lookback,    \* _LOOKBACK_DAYS
    LastDay,     \* bound: days
    MaxRestarts, \* bound: boots
    MaxLosses,   \* bound: pings or answers lost, and phones that die
    NoMeeting

ASSUME TelemetryAssumption ==
    /\ {RawDays, Lookback, LastDay, MaxRestarts, MaxLosses} \subseteq Nat
    /\ RawDays > 0 /\ Lookback > RawDays
    /\ NoMeeting \notin Recordings /\ NoMeeting \notin Copies

VARIABLES
    now,        \* the day
    phone,      \* the meeting recording, the one it died in, the ids used
    outbox,     \* stops no answer has arrived for
    handling,   \* the ping each handler is at and how far it is, or NoMeeting
    writer,     \* the handler that holds the database's write lock, or NoMeeting
    raw,        \* telemetry_events
    devices,    \* telemetry_devices: the day first seen, or 0
    rollup,     \* telemetry_daily_rollups: stops by day, or NoMeeting
    starts, losses,
    everything, \* history: every row ever stored
    booted,     \* history: the day of the last boot
    returned    \* history: a stop came back after its row had been purged

telemetryVars == <<now, phone, outbox, handling, writer, raw, devices, rollup, starts, losses,
                   everything, booted, returned>>

Event(type, m, device, from) ==
    [type |-> type, meeting |-> m, device |-> device, from |-> from, day |-> now]

OldDevicesPing == [type |-> "app_start", meeting |-> NoMeeting, device |-> "old", from |-> NoMeeting,
                   day |-> 1]

TelemetryInit ==
    /\ now = 1 /\ booted = 0 /\ starts = 0 /\ losses = 0 /\ returned = FALSE
    /\ phone = [at |-> NoMeeting, died |-> NoMeeting, used |-> {}]
    /\ outbox = {} /\ handling = [c \in Copies |-> NoMeeting] /\ writer = NoMeeting
    /\ raw = {OldDevicesPing} /\ everything = {OldDevicesPing}
    /\ devices = [d \in {"phone", "old"} |-> 0]
    /\ rollup = [d \in 1..LastDay |-> NoMeeting]
----------------------------------------------------------------------------
Free == {c \in Copies : handling[c] = NoMeeting}

(* A ping reaches a handler, or is lost on the way.                            *)
Sent(e) ==
    \/ \E c \in Free : handling' = [handling EXCEPT ![c] = [event |-> e, stage |-> "received"]] /\ UNCHANGED losses
    \/ losses < MaxLosses /\ losses' = losses + 1 /\ UNCHANGED handling

Serving == booted > 0

(* The phone records under a new id; after a death the new start names the one  *)
(* it continues.                                                                *)
StartRecording(m) ==
    /\ Serving /\ phone.at = NoMeeting /\ m \notin phone.used
    /\ phone' = [at |-> m, died |-> NoMeeting, used |-> phone.used \cup {m}]
    /\ Sent(Event("meeting_start", m, "phone", phone.died))
    /\ outbox' = IF phone.died = NoMeeting THEN outbox ELSE outbox \cup {phone.died}
    /\ UNCHANGED <<now, writer, raw, devices, rollup, starts, everything, booted, returned>>

StopRecording ==
    /\ phone.at # NoMeeting
    /\ outbox' = outbox \cup {phone.at}
    /\ phone' = [phone EXCEPT !.at = NoMeeting]
    /\ UNCHANGED <<now, handling, writer, raw, devices, rollup, starts, losses, everything, booted, returned>>

PhoneDies ==
    /\ phone.at # NoMeeting /\ losses < MaxLosses
    /\ losses' = losses + 1
    /\ phone' = [phone EXCEPT !.at = NoMeeting, !.died = phone.at]
    /\ UNCHANGED <<now, outbox, handling, writer, raw, devices, rollup, starts, everything, booted, returned>>

(* A queued stop goes out, again if an earlier copy of it is still handled.     *)
RetryStop(m) ==
    /\ Serving /\ m \in outbox /\ Free # {}
    /\ \E c \in Free :
           handling' = [handling EXCEPT ![c] = [event |-> Event("meeting_stop", m, "phone", NoMeeting),
                                                stage |-> "received"]]
    /\ UNCHANGED <<now, phone, outbox, writer, raw, devices, rollup, starts, losses,
                   everything, booted, returned>>
----------------------------------------------------------------------------
(* Faulty variant: the look for an earlier stop comes before any write.         *)
LockLater(c) == writer' = writer

(* ping: the first sighting is the first write, so the lock is held from here   *)
(* to the commit and the check below reads what every other handler committed.  *)
taken_by(c) == writer = NoMeeting /\ writer' = c

(* The same stop among the rows there are.                                      *)
repeated(e) == e.type = "meeting_stop" /\ \E x \in raw : x.type = e.type /\ x.meeting = e.meeting

pin_device(c) ==
    /\ handling[c] # NoMeeting /\ handling[c].stage = "received"
    /\ taken_by(c)
    /\ handling' = [handling EXCEPT ![c].stage = IF repeated(handling[c].event) THEN "repeat" ELSE "fresh"]
    /\ UNCHANGED <<now, phone, outbox, raw, devices, rollup, starts, losses, everything, booted, returned>>

(* The rest of ping: nothing for a repeat, a row otherwise; then the answer,    *)
(* which may not arrive.  A second row of one stop is told from the first.      *)
ping(c) ==
    /\ handling[c] # NoMeeting /\ handling[c].stage # "received"
    /\ writer' = NoMeeting
    /\ devices' = [devices EXCEPT !["phone"] = IF @ = 0 THEN now ELSE @]
    /\ LET e == handling[c].event
           earlier == {x \in everything : x.type = e.type /\ x.meeting = e.meeting}
           row == [e EXCEPT !.day = now, !.from = IF earlier # {} THEN "again" ELSE @]
       IN /\ IF handling[c].stage = "repeat" THEN UNCHANGED <<raw, everything, returned>>
             ELSE /\ raw' = raw \cup {row} /\ everything' = everything \cup {row}
                  /\ returned' = (returned \/ earlier \ raw # {})
          /\ \/ /\ outbox' = IF e.type = "meeting_stop" THEN outbox \ {e.meeting} ELSE outbox
                /\ UNCHANGED losses
             \/ /\ e.type = "meeting_stop" /\ losses < MaxLosses
                /\ losses' = losses + 1 /\ UNCHANGED outbox
    /\ handling' = [handling EXCEPT ![c] = NoMeeting]
    /\ UNCHANGED <<now, phone, rollup, starts, booted>>
----------------------------------------------------------------------------
(* Faulty variant: the purge does not look at who is about to be forgotten.     *)
AbsorbNothing(rows) == devices

(* _ABSORB_TELEMETRY_DEVICES: INSERT OR IGNORE the earliest raw row.            *)
absorbed(rows) ==
    [d \in DOMAIN devices |->
        LET days == {e.day : e \in {r \in rows : r.device = d}}
        IN IF devices[d] # 0 \/ days = {} THEN devices[d]
           ELSE CHOOSE x \in days : \A y \in days : x <= y]

(* Faulty variant: the last day of the window goes a day early.                 *)
KeptBriefly(rows) == {e \in rows : e.day > now - RawDays}

(* The window ends on a date: the cut-off has a space where the rows have a T.  *)
kept(rows) == {e \in rows : e.day >= now - RawDays}

(* The hourly sweep.                                                            *)
RetentionSweep ==
    /\ Serving /\ writer = NoMeeting /\ kept(raw) # raw
    /\ devices' = absorbed(raw) /\ raw' = kept(raw)
    /\ UNCHANGED <<now, phone, outbox, handling, writer, rollup, starts, losses, everything, booted, returned>>

(* _compute_day with NOT_RESUMED_ORPHAN.                                        *)
whole_meetings(rows, d) ==
    {x \in rows : x.type = "meeting_stop" /\ x.day = d /\ ~\E r \in rows : r.type # x.type /\ r.from = x.meeting}

(* compute_rollups: every day of the trailing window, whatever raw rows it has. *)
compute_rollups(rows) ==
    [d \in 1..LastDay |-> IF d > now - Lookback /\ d <= now THEN Cardinality(whole_meetings(rows, d)) ELSE rollup[d]]

(* A boot: what was being handled is gone, init_db purges, then the figures.    *)
BootServer ==
    /\ starts < MaxRestarts /\ starts' = starts + 1
    /\ handling' = [c \in Copies |-> NoMeeting] /\ writer' = NoMeeting
    /\ devices' = absorbed(raw) /\ raw' = kept(raw)
    /\ rollup' = compute_rollups(kept(raw)) /\ booted' = now
    /\ UNCHANGED <<now, phone, outbox, losses, everything, returned>>

(* No request lasts a day.                                                      *)
Midnight ==
    /\ Free = Copies /\ now < LastDay /\ now' = now + 1
    /\ UNCHANGED <<phone, outbox, handling, writer, raw, devices, rollup, starts, losses,
                   everything, booted, returned>>

TelemetryNext ==
    \/ \E m \in Recordings : StartRecording(m) \/ RetryStop(m)
    \/ StopRecording \/ PhoneDies
    \/ \E c \in Copies : pin_device(c) \/ ping(c)
    \/ RetentionSweep \/ BootServer \/ Midnight
----------------------------------------------------------------------------
(* meetings_live: a start of the window with no stop, whose id no later start   *)
(* continues.                                                                   *)
in_progress == {e \in raw : /\ e.type = "meeting_start" /\ e.day >= now - 1
                            /\ ~\E x \in raw : x.type = "meeting_stop" /\ x.meeting = e.meeting
                            /\ ~\E x \in raw : x.type = "meeting_start" /\ x.from = e.meeting}

(* A stop that is sent twice, even at the same moment, is one stop: two rows of  *)
(* it exist only if the second came after the first was purged.                 *)
StopCountedOnce ==
    ~returned => \A e, x \in everything : e.type = "meeting_stop" /\ x.type = e.type /\ x.meeting = e.meeting => x = e

(* A device's first day outlives the rows that established it.                  *)
FirstSeenKept ==
    \A d \in DOMAIN devices :
        LET days == {e.day : e \in {r \in everything : r.device = d}}
        IN /\ devices[d] # 0 => devices[d] \in days /\ \A y \in days : devices[d] <= y
           /\ days # {} /\ devices[d] = 0 => \E e \in raw : e.device = d /\ \A y \in days : e.day <= y

(* After a boot the figures of every complete day whose raw rows were still     *)
(* kept are those of everything that was stored up to then, a meeting resumed   *)
(* under a new id counted once as long as the start that resumed it is kept.    *)
RollupExact ==
    \A d \in 1..LastDay :
        d < booted /\ d >= booted - RawDays =>
            LET stopped == {e.meeting : e \in {x \in everything : x.type = "meeting_stop" /\ x.day = d}}
                halves == {e.from : e \in {x \in everything : x.type = "meeting_start" /\ x.day < booted
                                                                                /\ x.day >= booted - RawDays}}
            IN /\ rollup[d] <= Cardinality(stopped \ halves)
               /\ rollup[d] >= Cardinality(stopped \ {e.from : e \in {x \in everything : x.type = "meeting_start"}})

(* What is shown in progress is recording, or the phone died in it, or its stop  *)
(* has not been answered: an answered stop is never shown as going on.          *)
ShownIsGoingOn == \A e \in in_progress : e.meeting \in {phone.at, phone.died} \cup outbox

(* The four together.                                                           *)
TelemetryKept == StopCountedOnce /\ FirstSeenKept /\ RollupExact /\ ShownIsGoingOn

(* "rollups keep the trend lines intact indefinitely" (telemetry_rollup.py): the *)
(* figure of a past day never loses a meeting that was counted in it.  It does:  *)
(* the window that is computed again is longer than the raw rows are kept.      *)
TrendKept ==
    \A d \in 1..LastDay :
        d < booted /\ booted - d < Lookback =>
            rollup[d] >= Cardinality({e.meeting : e \in whole_meetings(everything, d)})
=============================================================================
