------------------------------ MODULE Session ------------------------------
(***************************************************************************)
(* The connection of the command-line host (linux/de0_cmd) and the board:  *)
(* the registration, the pings that keep it up, and the two timeouts that  *)
(* end it, one on either side (cp_cli/cp_cli.c, core/cm.c, core/main.c;    *)
(* nios/de0_fw: cp_srv/cp_srv.c, core/cm.c).                               *)
(*                                                                         *)
(* cm_tick runs in the timer thread and cm_timer_set in the threads that   *)
(* handle messages; nothing excludes the one from the other, and "count--" *)
(* is a load and a store.  Messages may be lost on either way, and the     *)
(* board may start again.  The board's timeout is a feature of its         *)
(* configuration, which is off by default: "feature" has either value.     *)
(* Time is counted in passes of cm_tick, and on the board in the same      *)
(* unit.                                                                   *)
(***************************************************************************)
EXTENDS Naturals, Sequences

CONSTANTS Ping,      \* period of the host's ping timer (15 s)
          Timeout,   \* period of its ping timeout (60 s)
          FwTimeout, \* CFG_PING_TIMEOUT (30 s) of the board
          MaxLag     \* bound: passes during which an exchange may be under way

ASSUME PeriodAssumption  == Ping \in Nat \ {0} /\ Timeout \in Nat \ {0}
ASSUME BoardAssumption   == FwTimeout \in Nat
ASSUME MaxLagAssumption  == MaxLag \in Nat

Timers == {"PING", "TIMEOUT"}  \* CM_TMR_ID0 and CM_TMR_ID1
Reload == [t \in Timers |-> IF t = "PING" THEN Ping ELSE Timeout]
\* Failures in a row that are told apart.
Many   == 5

VARIABLES armed,     \* cm.tim[i].cmid: the timers that have been set
          count,     \* cm.tim[i].count
          at, tim,   \* where the timer thread is in cm_tick, and at which timer
          val,       \* the count it has loaded
          inbox,     \* messages for the host's clients
          setting,   \* whether the client has set the first timer of two
          down, up,  \* messages on the way to the board, and to the host
          connected, \* LIN_STATUS_CONNECTED
          ended,     \* why the host has ended: "no", "done" or "timeout"
          bconn,     \* CFG_STATUS_CONNECTED of the board
          feature,   \* its CFG_FEATURE_PING, a configuration item, off by default
          quiet,     \* passes since its ping_time, up to one more than FwTimeout
          lag,       \* passes for which messages have been under way
          fails,     \* history: exchanges in a row that did not set the timeout,
          before,    \* the same before it was last set,
          missed,    \* pings lost in a row on the way to the board,
          restarted  \* and whether the board has started again

timers   == <<armed, count>>
tick     == <<at, tim, val>>
client   == <<inbox, setting, connected, ended>>
link     == <<down, up>>
boardv   == <<bconn, quiet, feature>>
failures == <<fails, before>>
vars     == <<timers, tick, client, link, boardv, lag, failures, missed, restarted>>

More(n) == IF n = Many THEN Many ELSE n + 1

\* The threads have started, and main has sent the registration request.
Init ==
  /\ armed = {} /\ count = [t \in Timers |-> 0]
  /\ at = "idle" /\ tim = "PING" /\ val = 0
  /\ inbox = <<>> /\ setting = FALSE /\ connected = FALSE /\ ended = "no"
  /\ down = <<"OPEN">> /\ up = <<>>
  /\ bconn = FALSE /\ quiet = 0 /\ feature \in BOOLEAN /\ lag = 0
  /\ fails = 0 /\ before = 0 /\ missed = 0 /\ restarted = FALSE

-----------------------------------------------------------------------------
UnderWay == down # <<>> \/ (ended = "no" /\ (up # <<>> \/ inbox # <<>> \/ setting))

\* The periodic timer; the board's time goes on when the host has ended.
Pass ==
  /\ at = "idle" /\ (UnderWay => lag < MaxLag)
  /\ lag' = IF UnderWay THEN lag + 1 ELSE 0
  /\ quiet' = IF quiet > FwTimeout THEN quiet ELSE quiet + 1
  /\ IF ended = "no" THEN at' = "load" /\ tim' = "PING" ELSE UNCHANGED <<at, tim>>
  /\ UNCHANGED <<timers, val, client, link, bconn, feature, failures, missed, restarted>>

\* cm_tick goes on with its next timer, or is through.
NextTimer == IF tim = "PING" THEN at' = "load" /\ tim' = "TIMEOUT"
                             ELSE at' = "idle" /\ UNCHANGED tim

\* if (cmid == CM_ID_NULL) break; if (count != 0) ... the load of count
TickLoad ==
  /\ at = "load"
  /\ IF tim \notin armed THEN at' = "idle" /\ UNCHANGED <<tim, val>>
     ELSE IF count[tim] = 0 THEN NextTimer /\ UNCHANGED val
     ELSE at' = "store" /\ val' = count[tim] /\ UNCHANGED tim
  /\ UNCHANGED <<timers, client, link, boardv, lag, failures, missed, restarted>>

\* ... the store of count - 1, which may undo a cm_timer_set
TickStore ==
  /\ at = "store" /\ at' = "test"
  /\ count' = [count EXCEPT ![tim] = val - 1]
  /\ fails' = IF tim = "TIMEOUT" /\ count[tim] # val THEN More(before) ELSE fails
  /\ UNCHANGED <<armed, tim, val, client, link, boardv, lag, before, missed, restarted>>

\* What happens after the store, with the count a timer that has expired gets.
TickTestWith(reload) ==
  /\ at = "test"
  /\ IF count[tim] = 0
     THEN count' = [count EXCEPT ![tim] = reload] /\ inbox' = Append(inbox, tim)
     ELSE UNCHANGED <<count, inbox>>
  /\ NextTimer
  /\ UNCHANGED <<armed, val, setting, connected, ended, link, boardv, lag, failures,
                 missed, restarted>>

\* Slip: timers do not reload.
TickTestOneShot == TickTestWith(0)

\* if (count == 0) { count = reload; ... cm_send(CM_MSG_TIMER, ...) }
TickTest == TickTestWith(Reload[tim])

-----------------------------------------------------------------------------
\* The host's clients.  A message for them arrives.
Receive ==
  /\ up # <<>> /\ ended = "no"
  /\ up' = Tail(up) /\ inbox' = Append(inbox, Head(up))
  /\ UNCHANGED <<timers, tick, setting, connected, ended, down, boardv, lag, failures,
                 missed, restarted>>

Take(kind) == ended = "no" /\ ~setting /\ inbox # <<>> /\ Head(inbox) = kind /\ inbox' = Tail(inbox)

\* cp_timer, CP_TMR_PING
PingTimer ==
  /\ Take("PING")
  /\ down' = Append(down, "PING")
  /\ UNCHANGED <<timers, tick, setting, connected, ended, up, boardv, lag, failures,
                 missed, restarted>>

\* cp_timer, CP_TMR_PING_TIMEOUT
PingTimeout ==
  /\ Take("TIMEOUT")
  /\ ended' = "timeout"
  /\ UNCHANGED <<timers, tick, setting, connected, link, boardv, lag, failures,
                 missed, restarted>>

\* Slip: the period is not converted to ticks.
SetTimerMs(t) == armed' = armed \cup {t} /\ count' = [count EXCEPT ![t] = 10 * Reload[t]]

\* cm_timer_set
SetTimer(t) == armed' = armed \cup {t} /\ count' = [count EXCEPT ![t] = Reload[t]]

\* Slip: a response restarts the ping timer and not the timeout.
AnsweredHalf ==
  /\ Take("REG") \/ Take("RESP")
  /\ SetTimer("PING")
  /\ connected' = TRUE /\ setting' = ("TIMEOUT" \notin armed)
  /\ UNCHANGED <<tick, ended, link, boardv, lag, failures, missed, restarted>>

\* cm_msg, CM_REG_RESP, and cp_msg, CP_PING_RESP: cm_timer_set for the one...
Answered ==
  /\ Take("REG") \/ Take("RESP")
  /\ SetTimer("PING")
  /\ connected' = TRUE /\ setting' = TRUE
  /\ UNCHANGED <<tick, ended, link, boardv, lag, failures, missed, restarted>>

\* ... and for the other
AnsweredToo ==
  /\ setting /\ ended = "no"
  /\ SetTimer("TIMEOUT")
  /\ setting' = FALSE
  /\ before' = fails /\ fails' = 0
  /\ UNCHANGED <<tick, inbox, connected, ended, link, boardv, lag, missed, restarted>>

\* opc_daq_state, when the acquisition is done: CM_REG_CLOSE, and the host ends
Close ==
  /\ connected /\ ended = "no" /\ ~setting
  /\ down' = Append(down, "CLOSE") /\ ended' = "done"
  /\ UNCHANGED <<timers, tick, inbox, setting, connected, up, boardv, lag, failures,
                 missed, restarted>>

-----------------------------------------------------------------------------
\* The board.  cm_msg: registration and its end; cp_msg: a ping, which counts
\* as a sign of life even when it is not answered.
BoardOpen ==
  /\ Head(down) = "OPEN"
  /\ bconn' = TRUE /\ up' = Append(up, "REG")
  /\ UNCHANGED <<fails, missed>>

BoardClose ==
  /\ Head(down) = "CLOSE"
  /\ bconn' = FALSE
  /\ UNCHANGED <<up, fails, missed>>

\* Slip: a ping is answered whatever the status.
BoardPingAlways ==
  /\ Head(down) = "PING"
  /\ up' = Append(up, "RESP")
  /\ UNCHANGED <<bconn, fails, missed>>

BoardPing ==
  /\ Head(down) = "PING"
  /\ missed' = IF bconn THEN 0 ELSE missed
  /\ IF bconn THEN up' = Append(up, "RESP") /\ UNCHANGED fails
              ELSE fails' = More(fails) /\ UNCHANGED up
  /\ UNCHANGED bconn

Board ==
  /\ down # <<>> /\ down' = Tail(down)
  /\ BoardOpen \/ BoardClose \/ BoardPing
  /\ quiet' = 0
  /\ UNCHANGED <<timers, tick, client, feature, lag, before, restarted>>

\* Slip: it looks when a message comes.
BoardTimesOutAsked ==
  /\ feature /\ bconn /\ quiet > FwTimeout /\ down # <<>>
  /\ bconn' = FALSE
  /\ UNCHANGED <<timers, tick, client, link, quiet, feature, lag, failures, missed, restarted>>

\* cp_tick, in one of the cycles in which it looks; without the feature a board
\* never does.
BoardTimesOut ==
  /\ feature /\ bconn /\ quiet > FwTimeout
  /\ bconn' = FALSE
  /\ UNCHANGED <<timers, tick, client, link, quiet, feature, lag, failures, missed, restarted>>

-----------------------------------------------------------------------------
\* A message is lost; so is what is on its way to a board that starts again.
Lose ==
  /\ \/ /\ down # <<>> /\ down' = Tail(down) /\ UNCHANGED up
        /\ IF Head(down) = "PING" THEN fails' = More(fails) /\ missed' = More(missed)
                                  ELSE UNCHANGED <<fails, missed>>
     \/ /\ up # <<>> /\ up' = Tail(up) /\ UNCHANGED <<down, missed>>
        /\ fails' = IF Head(up) = "RESP" THEN More(fails) ELSE fails
  /\ UNCHANGED <<timers, tick, client, boardv, lag, before, restarted>>

BoardRestarts ==
  /\ ~restarted /\ restarted' = TRUE
  /\ bconn' = FALSE /\ quiet' = 0 /\ down' = <<>>
  /\ fails' = IF down = <<"PING">> THEN More(fails) ELSE fails
  /\ UNCHANGED <<timers, tick, client, up, feature, lag, before, missed>>

Tick == Pass \/ TickLoad \/ TickStore \/ TickTest
Host == Receive \/ PingTimer \/ PingTimeout \/ Answered \/ AnsweredToo

Next == Tick \/ Host \/ Close \/ Board \/ BoardTimesOut \/ Lose \/ BoardRestarts

\* Time goes on, the threads do, and messages arrive or are lost.
Spec == Init /\ [][Next]_vars
          /\ WF_vars(Tick) /\ WF_vars(Host) /\ WF_vars(Board \/ Lose) /\ WF_vars(BoardTimesOut)

-----------------------------------------------------------------------------
TypeOK ==
  /\ armed \subseteq Timers /\ \A t \in Timers : count[t] \in 0..Reload[t]
  /\ at \in {"idle", "load", "store", "test"} /\ tim \in Timers /\ val \in 0..Timeout
  /\ \A k \in DOMAIN inbox : inbox[k] \in Timers \cup {"REG", "RESP"}
  /\ ended \in {"no", "done", "timeout"}
  /\ {setting, connected, bconn, feature, restarted} \subseteq BOOLEAN
  /\ Len(inbox) <= 2 /\ Len(down) <= 2 /\ Len(up) <= 2
  /\ quiet \in 0..FwTimeout+1 /\ lag \in 0..MaxLag
  /\ {fails, before, missed} \subseteq 0..Many

\* The host gives up only when as many pings in a row have failed as its timeout
\* leaves room for, but one: lost, not answered, or answered by a response whose
\* cm_timer_set the timer thread undid.  A response that is handled after the
\* timer's expiry, and before the message that tells of it, does not save it.
PatientHost ==
  ended = "timeout" => fails >= (Timeout \div Ping) - 1 \/ before >= (Timeout \div Ping) - 1

\* The board gives up a host that is there only when two pings in a row have not
\* reached it.
PatientBoard == connected /\ ended = "no" /\ ~bconn /\ ~restarted => missed >= 2

\* A host that the board no longer counts as connected, be it for its silence or
\* for a restart, ends: nobody registers again, but the pings are not answered.
GivesUp == (connected /\ ~bconn) ~> ended # "no"

\* A board that is configured to watch its pings knows some day that the host has
\* left, also when CM_REG_CLOSE is lost.  Any other keeps the connection then.
BoardNotices == (feature /\ ended # "no") ~> ~bconn
=============================================================================
