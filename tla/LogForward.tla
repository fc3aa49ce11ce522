----------------------------- MODULE LogForward -----------------------------
(***************************************************************************)
(* Log records on their way to a syslog collector (log_forward.py).  A     *)
(* thread that logs puts them into the queue of the forwarder without      *)
(* waiting; a thread of the forwarder sends them one by one.  A            *)
(* reconfiguration replaces the forwarder while both go on.                *)
(***************************************************************************)
EXTENDS Naturals, Sequences

CONSTANTS
    Threads,        \* that log
    Reloads,        \* requests that reconfigure the forwarding
    Last,           \* forwarders are 1 .. Last; bound
    MaxRecords,     \* bound
    MaxQueue        \* _MAX_QUEUE

BoundsAssumption == Last \in Nat \ {0} /\ MaxRecords \in Nat /\ MaxQueue \in Nat \ {0}

Forwarders == 1 .. Last

VARIABLES
    emitted,        \* history: a record is its number
    thread,         \* [Threads -> the record it hands on, and the forwarder it hands it to]
    live,           \* _handler, 0 when there is none
    forwarder,      \* [Forwarders -> handler with its thread]
    enabled,        \* row log_forward_enabled of settings
    reload          \* [Reloads -> what the request has read]

vars == <<emitted, thread, live, forwarder, enabled, reload>>

Idle == [line |-> 0, to |-> 0]

\* given and arrived are history: the records it was handed, and those that arrived.
New == [at |-> "none", queue |-> <<>>, line |-> 0, stop |-> FALSE,
        sent |-> 0, dropped |-> 0, errors |-> 0, given |-> <<>>, arrived |-> <<>>]

Init ==
    /\ emitted = 0
    /\ thread = [t \in Threads |-> Idle]
    /\ live = 0 /\ forwarder = [h \in Forwarders |-> New]
    /\ enabled \in BOOLEAN /\ reload = [q \in Reloads |-> "idle"]

-----------------------------------------------------------------------------
(* Threads *)

\* The logger has a forwarder, which the thread takes hold of.
Emit(t) ==
    /\ thread[t] = Idle /\ emitted < MaxRecords /\ live # 0
    /\ emitted' = emitted + 1
    /\ thread' = [thread EXCEPT ![t] = [line |-> emitted', to |-> live]]
    /\ UNCHANGED <<live, forwarder, enabled, reload>>

Full_OneMore(h) == Len(h.queue) > MaxQueue

Full(h) == Len(h.queue) >= MaxQueue

\* emit, also of a forwarder that has been replaced meanwhile.
Hand(t) ==
    /\ thread[t] # Idle
    /\ LET h == forwarder[thread[t].to]
           handed == [h EXCEPT !.given = Append(@, thread[t].line)]
       IN  forwarder' = [forwarder EXCEPT ![thread[t].to] =
               IF Full(h) THEN [handed EXCEPT !.dropped = @ + 1]
               ELSE [handed EXCEPT !.queue = Append(@, thread[t].line)]]
    /\ thread' = [thread EXCEPT ![t] = Idle]
    /\ UNCHANGED <<emitted, live, enabled, reload>>

Put(h, changed) ==
    /\ forwarder' = [forwarder EXCEPT ![h] = changed]
    /\ UNCHANGED <<emitted, thread, live, enabled, reload>>

\* queue.get, which also returns a line after the handler was closed.
Take(h) ==
    /\ forwarder[h].at = "get" /\ forwarder[h].queue # <<>>
    /\ Put(h, [forwarder[h] EXCEPT !.at = "send", !.line = Head(forwarder[h].queue), !.queue = Tail(@)])

GoOn(h) == IF forwarder[h].stop THEN "ended" ELSE "get"

\* get times out, and the thread looks whether it was closed.
NoticeClose(h) ==
    /\ forwarder[h].at = "get" /\ forwarder[h].stop
    /\ Put(h, [forwarder[h] EXCEPT !.at = "ended"])

Send(h) ==
    /\ forwarder[h].at = "send"
    /\ Put(h, [forwarder[h] EXCEPT !.at = GoOn(h), !.line = 0, !.sent = @ + 1,
                                   !.arrived = Append(@, forwarder[h].line)])

Failed_Requeued(h) ==
    [forwarder[h] EXCEPT !.at = GoOn(h), !.line = 0, !.queue = Append(@, forwarder[h].line)]

Failed_Uncounted(h) == [forwarder[h] EXCEPT !.at = GoOn(h), !.line = 0]

\* The line is given up and the socket dropped.
Failed(h) == [forwarder[h] EXCEPT !.at = GoOn(h), !.line = 0, !.errors = @ + 1]

\* The connection breaks before or after the line has arrived.
SendFails(h) ==
    /\ forwarder[h].at = "send"
    /\ \/ Put(h, Failed(h))
       \/ Put(h, [Failed(h) EXCEPT !.arrived = Append(@, forwarder[h].line)])

-----------------------------------------------------------------------------
(* Configuration *)

Fresh == {h \in Forwarders : forwarder[h].at = "none"}

Closed_Kept(all) == all

\* The handler there is, if any, is closed.
Closed(all) == [h \in Forwarders |-> IF h = live THEN [all[h] EXCEPT !.stop = TRUE] ELSE all[h]]

\* configure_forwarding
Configure(on) ==
    IF on THEN \E h \in Fresh :
                  /\ \A g \in Fresh : h <= g
                  /\ live' = h /\ forwarder' = [Closed(forwarder) EXCEPT ![h] = [New EXCEPT !.at = "get"]]
    ELSE live' = 0 /\ forwarder' = Closed(forwarder)

\* POST /log-forward/reload reads the settings and then configures.
ReadSettings(q) ==
    /\ reload[q] = "idle"
    /\ reload' = [reload EXCEPT ![q] = IF enabled THEN "on" ELSE "off"]
    /\ UNCHANGED <<emitted, thread, live, forwarder, enabled>>

Apply(q) ==
    /\ reload[q] # "idle"
    /\ Configure(reload[q] = "on")
    /\ reload' = [reload EXCEPT ![q] = "idle"]
    /\ UNCHANGED <<emitted, thread, enabled>>

\* PUT /settings, which nobody reads before the next reload or start.
Switch ==
    /\ enabled' = ~enabled
    /\ UNCHANGED <<emitted, thread, live, forwarder, reload>>

\* The process ends, and what is in memory is gone; the lifespan configures anew.
Restart ==
    /\ thread' = [t \in Threads |-> Idle] /\ reload' = [q \in Reloads |-> "idle"]
    /\ live' = IF enabled THEN 1 ELSE 0
    /\ forwarder' = [h \in Forwarders |-> IF h = live' THEN [New EXCEPT !.at = "get"] ELSE New]
    /\ UNCHANGED <<emitted, enabled>>

Next ==
    \/ Switch \/ Restart
    \/ \E t \in Threads : Emit(t) \/ Hand(t)
    \/ \E q \in Reloads : ReadSettings(q) \/ Apply(q)
    \/ \E h \in Forwarders : Take(h) \/ NoticeClose(h) \/ Send(h) \/ SendFails(h)

Spec == Init /\ [][Next]_vars

-----------------------------------------------------------------------------
(* Properties *)

\* The types; the queue stays within its bound.
TypeOK ==
    /\ emitted \in 0 .. MaxRecords /\ enabled \in BOOLEAN /\ live \in Forwarders \cup {0}
    /\ \A t \in Threads : thread[t] \in [line : 0 .. emitted, to : Forwarders \cup {0}]
    /\ \A q \in Reloads : reload[q] \in {"idle", "on", "off"}
    /\ \A h \in Forwarders :
          /\ forwarder[h].at \in {"none", "get", "send", "ended"} /\ forwarder[h].stop \in BOOLEAN
          /\ Len(forwarder[h].queue) <= MaxQueue
          /\ {forwarder[h].sent, forwarder[h].dropped, forwarder[h].errors} \subseteq 0 .. emitted

\* "Failures are counted and surfaced": what a forwarder was handed is in its counters,
\* or waits still, also after it was replaced.
EveryLineCounted ==
    \A h \in Forwarders :
        Len(forwarder[h].given) =
            forwarder[h].sent + forwarder[h].dropped + forwarder[h].errors
            + Len(forwarder[h].queue) + (IF forwarder[h].at = "send" THEN 1 ELSE 0)

Position(n, s) == CHOOSE i \in 1 .. Len(s) : s[i] = n

\* However connections break, the collector gets what one forwarder sends in order and
\* nothing twice.
ArrivesInOrder ==
    \A h \in Forwarders :
        LET got == forwarder[h].arrived
            at(i) == Position(got[i], forwarder[h].given)
        IN  \A i \in 2 .. Len(got) : at(i - 1) < at(i)

\* Only the handler that is configured goes on: every other has been closed, so that its
\* thread ends, whatever reloads overlap.
OneForwarder ==
    \A h \in Forwarders : forwarder[h].at \in {"get", "send"} => h = live \/ forwarder[h].stop

\* What holds of every line and every forwarder.
LinesKept == TypeOK /\ EveryLineCounted /\ ArrivesInOrder /\ OneForwarder
=============================================================================
