--------------------------- MODULE SessionProofs ---------------------------
(***************************************************************************)
(* Proofs about Session, for periods of any length in the code's ratios:   *)
(* neither side gives the other up too early.                              *)
(*                                                                         *)
(* Messages come in exchanges, one at a time: a registration or a ping,    *)
(* its response, the setting of the two timers.  An exchange is short      *)
(* compared with the period of the pings, so what is left of the two       *)
(* timers tells how many of them have failed.                              *)
(***************************************************************************)
EXTENDS Session, SequenceTheorems, TLAPS

\* The code's periods are 15 s, 60 s and 30 s.  The board counts whole seconds, so
\* that it gives up after 31: more than two ping periods and what two exchanges
\* take.  An exchange is over in less than a quarter of the ping period.
Timing ==
  /\ Timeout = 4 * Ping
  /\ FwTimeout >= 2 * (Ping + MaxLag)
  /\ Ping > 4 * MaxLag + 1

\* The passes left until a timer expires, the one under way not counted.
LeftP == IF tim = "PING" /\ at = "load" THEN count["PING"] - 1
         ELSE IF tim = "PING" /\ at = "store" THEN val - 1
         ELSE count["PING"]
LeftT == IF (tim = "PING" /\ at # "idle") \/ at = "load" THEN count["TIMEOUT"] - 1
         ELSE IF at = "store" THEN val - 1
         ELSE count["TIMEOUT"]

\* What the clients' queue holds: the message of an exchange, the timeout, or
\* both.
Plain(s)    == s \in {<<>>, <<"TIMEOUT">>}
Holds(s, x) == s \in {<<x>>, <<x, "TIMEOUT">>, <<"TIMEOUT", x>>}
Late(s)     == s \in {<<"TIMEOUT">>, <<"PING", "TIMEOUT">>, <<"RESP", "TIMEOUT">>,
                      <<"TIMEOUT", "PING">>, <<"TIMEOUT", "RESP">>}

\* Types; the ping timer is set first.
Typed ==
  /\ armed \in {{}, {"PING"}, Timers}
  /\ count \in [Timers -> Nat] /\ count["PING"] <= Ping /\ count["TIMEOUT"] <= Timeout
  /\ at \in {"idle", "load", "store", "test"} /\ tim \in Timers /\ val \in 0..Timeout
  /\ ended \in {"no", "done", "timeout"}
  /\ setting \in BOOLEAN /\ connected \in BOOLEAN /\ bconn \in BOOLEAN /\ restarted \in BOOLEAN
  /\ quiet \in 0..FwTimeout+1 /\ lag \in 0..MaxLag
  /\ fails \in 0..Many /\ before \in 0..Many /\ missed \in 0..Many

\* Where the timer thread is in cm_tick, and what it has loaded.
Clock ==
  /\ at = "store" => tim \in armed /\ val \in 1..Reload[tim] /\ val <= count[tim]
  /\ at = "test" => tim \in armed
  /\ at # "idle" /\ tim = "TIMEOUT" => "PING" \in armed
  /\ \A t \in Timers : IF t \in armed THEN count[t] >= 1 \/ (at = "test" /\ tim = t)
                                      ELSE count[t] = 0

\* The exchange under way
Exchanges == {"none", "open", "reg", "ping", "resp", "set"}

\* Where its message is
Shaped(e) ==
  /\ e = "none" => down = <<>> /\ up = <<>> /\ Plain(inbox) /\ ~setting
  /\ e = "open" => down = <<"OPEN">> /\ up = <<>> /\ inbox = <<>> /\ ~setting
  /\ e = "reg"  => /\ down = <<>> /\ ~setting
                   /\ (up = <<"REG">> /\ inbox = <<>>) \/ (up = <<>> /\ inbox = <<"REG">>)
  /\ e = "ping" => /\ up = <<>> /\ ~setting
                   /\ (down = <<"PING">> /\ Plain(inbox)) \/ (down = <<>> /\ Holds(inbox, "PING"))
  /\ e = "resp" => /\ down = <<>> /\ ~setting
                   /\ (up = <<"RESP">> /\ Plain(inbox)) \/ (up = <<>> /\ Holds(inbox, "RESP"))
  /\ e = "set"  => down = <<>> /\ up = <<>> /\ Plain(inbox) /\ setting

\* Which timers are set in it
Phase(e) ==
  /\ e = "none" => IF connected THEN armed = Timers ELSE armed = {} /\ inbox = <<>>
  /\ e \in {"open", "reg"} => ~connected /\ armed = {} /\ missed = 0 /\ (at # "idle" => lag >= 1)
  /\ e \in {"ping", "resp"} => connected /\ armed = Timers
  /\ e = "set" => connected /\ (armed = Timers \/ (armed = {"PING"} /\ inbox = <<>>))

\* The board has heard of the host lately, unless pings were lost.
Bound(m) == IF m = 0 THEN Ping + MaxLag ELSE 2 * Ping + MaxLag
Patience(e) ==
  /\ e \in {"reg", "resp", "set"} => quiet <= lag
  /\ e \in {"ping", "resp", "set"} => Ping - LeftP <= lag
  /\ connected /\ missed <= 1 => quiet + LeftP <= Bound(missed) + (IF e = "ping" THEN Ping ELSE 0)
  /\ ~restarted /\ (e = "reg" \/ connected) => bconn \/ missed >= 2

\* A cm_timer_set for the timeout that the timer thread is about to undo
Undone == at = "store" /\ tim = "TIMEOUT" /\ count["TIMEOUT"] # val

\* How much longer ago the timeout was set than the last ping was sent: a ping
\* period for every exchange that has failed since, and what their answers took.
Ahead    == (Timeout - LeftT) - (Ping - LeftP)
Times(n) == IF n = 0 THEN 0 ELSE IF n = 1 THEN Ping + MaxLag ELSE 2 * (Ping + MaxLag)
Slack(e) == IF e = "set" THEN Ping + MaxLag ELSE IF e \in {"ping", "resp"} THEN Ping ELSE 0
Given(e) ==
  /\ Undone => e = "none" /\ (before <= 1 => Ahead <= Times(before + 1) + 1)
  /\ "TIMEOUT" \in armed /\ fails <= 2 /\ ~Undone => Ahead <= Times(fails) + 1 + Slack(e)
  /\ Late(inbox) => /\ Timeout - LeftT <= lag
                    /\ fails >= 3 \/ before >= 3
                    /\ e = "set" \/ Head(inbox) = "RESP" => fails >= 3

\* A host that has not ended, in exchange e
Live(e) == Shaped(e) /\ Phase(e) /\ Patience(e) /\ Given(e)

\* Once the host has ended, its timer thread finishes the pass it is in, and the
\* board what is on the way to it.
Over ==
  /\ connected
  /\ down \in {<<>>, <<"PING">>, <<"CLOSE">>, <<"PING", "CLOSE">>}
  /\ up = <<>> \/ (up = <<"RESP">> /\ down \in {<<>>, <<"CLOSE">>})
  /\ Plain(inbox) \/ Holds(inbox, "PING") \/ Holds(inbox, "RESP")
  /\ at # "idle" => /\ armed = Timers
                    /\ LeftP = 0 => Plain(inbox)
                    /\ LeftT = 0 => ~Late(inbox)
  /\ Undone => fails = 0 /\ down \in {<<>>, <<"CLOSE">>} /\ up = <<>>
  /\ ended = "timeout" => fails >= 3 \/ before >= 3

IInv ==
  /\ Typed /\ Clock
  /\ ended = "no" => \E e \in Exchanges : Live(e)
  /\ ended # "no" => Over
  /\ Undone => fails = 0
-----------------------------------------------------------------------------
\* Adding to a message queue of one.
LEMMA AppendTwo == ASSUME NEW x, NEW y PROVE Append(<<x>>, y) = <<x, y>>
<1> DEFINE S == {x, y}
<1>1. <<x>> \in Seq(S) /\ <<x, y>> \in Seq(S)
  OBVIOUS
<1>2. Append(<<x>>, y) \in Seq(S) /\ Len(Append(<<x>>, y)) = 2
  BY <1>1, AppendProperties
<1>3. \A i \in 1..2 : Append(<<x>>, y)[i] = <<x, y>>[i]
  BY <1>1, AppendProperties
<1> QED
  BY <1>1, <1>2, <1>3, SeqEqual

\* What a timer that expires adds to the clients' queue.
LEMMA AddPing ==
  ASSUME NEW s, Plain(s)
  PROVE  /\ Holds(Append(s, "PING"), "PING")
         /\ Late(Append(s, "PING")) <=> Late(s)
         /\ Head(Append(s, "PING")) # "RESP"
<1>1. CASE s = <<>>
  <2>1. Append(s, "PING") = <<"PING">>
    BY <1>1
  <2> QED
    BY <1>1, <2>1 DEF Holds, Late
<1>2. CASE s = <<"TIMEOUT">>
  <2>1. Append(s, "PING") = <<"TIMEOUT", "PING">>
    BY <1>2, AppendTwo
  <2> QED
    BY <1>2, <2>1 DEF Holds, Late
<1> QED
  BY <1>1, <1>2 DEF Plain

\* The message that tells of the timeout comes last, and at most once.
LEMMA AddTimeout ==
  ASSUME NEW s, ~Late(s)
  PROVE  /\ Late(<<"TIMEOUT">>)
         /\ Plain(s) => Append(s, "TIMEOUT") = <<"TIMEOUT">>
         /\ \A x \in {"PING", "RESP"} :
              Holds(s, x) => Append(s, "TIMEOUT") = <<x, "TIMEOUT">> /\ Late(<<x, "TIMEOUT">>)
<1>1. Plain(s) => s = <<>>
  BY DEF Plain, Late
<1>2. \A x \in {"PING", "RESP"} : Holds(s, x) => s = <<x>>
  BY DEF Holds, Late
<1>3. Append(<<>>, "TIMEOUT") = <<"TIMEOUT">>
  OBVIOUS
<1>4. Append(<<"PING">>, "TIMEOUT") = <<"PING", "TIMEOUT">>
  BY AppendTwo
<1>5. Append(<<"RESP">>, "TIMEOUT") = <<"RESP", "TIMEOUT">>
  BY AppendTwo
<1> QED
  BY <1>1, <1>2, <1>3, <1>4, <1>5 DEF Late

\* A response that arrives.
LEMMA AddResp ==
  ASSUME NEW s, Plain(s)
  PROVE  /\ Holds(Append(s, "RESP"), "RESP")
         /\ Late(Append(s, "RESP")) <=> Late(s)
         /\ Head(Append(s, "RESP")) = "RESP" => s = <<>>
<1>1. CASE s = <<>>
  <2>1. Append(s, "RESP") = <<"RESP">>
    BY <1>1
  <2> QED
    BY <1>1, <2>1 DEF Holds, Late
<1>2. CASE s = <<"TIMEOUT">>
  <2>1. Append(s, "RESP") = <<"TIMEOUT", "RESP">>
    BY <1>2, AppendTwo
  <2> QED
    BY <1>2, <2>1 DEF Holds, Late
<1> QED
  BY <1>1, <1>2 DEF Plain

\* What the client leaves in the queue when it takes a message.
LEMMA TakeOne ==
  ASSUME NEW s, NEW x \in {"PING", "RESP"}, Holds(s, x)
  PROVE  /\ s # <<>>
         /\ Head(s) \in {x, "TIMEOUT"}
         /\ Head(s) = x => Plain(Tail(s)) /\ (Late(Tail(s)) => Late(s))
         /\ Head(s) = "TIMEOUT" => Late(s) /\ Tail(s) = <<x>>
<1>1. CASE s = <<x>>
  <2>1. Head(s) = x /\ Tail(s) = <<>> /\ s # <<>>
    BY <1>1
  <2> QED
    BY <1>1, <2>1 DEF Plain, Late
<1>2. CASE s = <<x, "TIMEOUT">>
  <2>1. Head(s) = x /\ Tail(s) = <<"TIMEOUT">> /\ s # <<>>
    BY <1>2
  <2> QED
    BY <1>2, <2>1 DEF Plain, Late
<1>3. CASE s = <<"TIMEOUT", x>>
  <2>1. Head(s) = "TIMEOUT" /\ Tail(s) = <<x>> /\ s # <<>>
    BY <1>3
  <2> QED
    BY <1>3, <2>1 DEF Plain, Late
<1> QED
  BY <1>1, <1>2, <1>3 DEF Holds

\* Without the message of an exchange there is only the timeout's to take.
LEMMA TakePlain ==
  ASSUME NEW s, Plain(s)
  PROVE  /\ Late(s) <=> s = <<"TIMEOUT">>
         /\ s # <<>> => Head(s) = "TIMEOUT" /\ Tail(s) = <<>> /\ Late(s)
<1>1. CASE s = <<>>
  BY <1>1 DEF Late
<1>2. CASE s = <<"TIMEOUT">>
  BY <1>2 DEF Late
<1> QED
  BY <1>1, <1>2 DEF Plain

\* Queues of one message.
LEMMA Singles ==
  /\ Plain(<<>>) /\ ~Late(<<>>)
  /\ \A x : Holds(<<x>>, x)
  /\ ~Late(<<"PING">>) /\ ~Late(<<"RESP">>) /\ ~Late(<<"REG">>)
  /\ \A x : Append(<<>>, x) = <<x>> /\ Tail(<<x>>) = <<>> /\ Head(<<x>>) = x /\ <<x>> # <<>>
<1>1. Plain(<<>>) /\ ~Late(<<>>)
  BY DEF Plain, Late
<1>2. \A x : Holds(<<x>>, x)
  BY DEF Holds
<1>3. ~Late(<<"PING">>) /\ ~Late(<<"RESP">>) /\ ~Late(<<"REG">>)
  BY DEF Late
<1>4. \A x : Append(<<>>, x) = <<x>> /\ Tail(<<x>>) = <<>> /\ Head(<<x>>) = x /\ <<x>> # <<>>
  OBVIOUS
<1> QED
  BY <1>1, <1>2, <1>3, <1>4

-----------------------------------------------------------------------------
(***************************************************************************)
(* The timers.                                                             *)
(***************************************************************************)

\* The invariant's numbers are integers, and the periods are positive.
LEMMA Numbers ==
  ASSUME Typed, Timing
  PROVE  /\ Ping \in Nat /\ Ping > 0 /\ Timeout \in Nat /\ MaxLag \in Nat /\ FwTimeout \in Nat
         /\ count["PING"] \in Nat /\ count["TIMEOUT"] \in Nat /\ val \in Nat
         /\ Reload["PING"] = Ping /\ Reload["TIMEOUT"] = Timeout
         /\ count["PING"] <= Ping /\ count["TIMEOUT"] <= Timeout /\ val <= Timeout
         /\ tim = "PING" \/ tim = "TIMEOUT"
         /\ \A n \in 0..Many : More(n) \in 0..Many /\ (n <= 4 => More(n) = n + 1) /\ More(n) >= n
<1>1. /\ Reload["PING"] = Ping /\ Reload["TIMEOUT"] = Timeout
  BY DEF Reload, Timers
<1>2. \A n \in 0..Many : More(n) \in 0..Many /\ (n <= 4 => More(n) = n + 1) /\ More(n) >= n
  BY DEF More, Many
<1>3. count["PING"] \in Nat /\ count["TIMEOUT"] \in Nat
  BY DEF Typed, Timers
<1> QED
  BY <1>1, <1>2, <1>3, PeriodAssumption, BoardAssumption, MaxLagAssumption DEF Typed, Timers

\* The amounts of time the invariant speaks of.
LEMMA Amounts ==
  /\ \A m : /\ Bound(m) \in Nat /\ Bound(m) >= Ping + MaxLag /\ Bound(m) <= 2 * Ping + MaxLag
            /\ m # 0 => Bound(m) = 2 * Ping + MaxLag
            /\ m = 0 => Bound(m) = Ping + MaxLag
  /\ \A n : Times(n) \in Nat /\ Times(n) <= 2 * (Ping + MaxLag)
  /\ \A n \in 0..1 : Times(n + 1) = Times(n) + Ping + MaxLag
  /\ Times(0) = 0
  /\ Slack("none") = 0 /\ Slack("ping") = Ping /\ Slack("resp") = Ping /\ Slack("set") = Ping + MaxLag
BY PeriodAssumption, MaxLagAssumption DEF Bound, Times, Slack

\* What is left of a timer that is set is not more than its period.
LEMMA LeftBounds ==
  ASSUME Typed, Clock, Timing
  PROVE  /\ LeftP \in Int /\ LeftT \in Int
         /\ LeftP <= Ping /\ LeftT <= Timeout
         /\ "PING" \in armed => LeftP >= 0
         /\ "TIMEOUT" \in armed => LeftT >= 0
         /\ at = "load" /\ tim = "PING" => LeftP <= Ping - 1
         /\ (tim = "PING" /\ at # "idle") \/ at = "load" => LeftT <= Timeout - 1
         /\ at = "test" /\ tim = "PING" => LeftP = count["PING"]
         /\ at = "test" /\ tim = "TIMEOUT" => LeftT = count["TIMEOUT"] /\ LeftP = count["PING"] /\ LeftP >= 1
<1>1. /\ at = "store" => tim \in armed /\ 1 <= val /\ val <= count[tim]
  BY Numbers DEF Clock
<1>2. /\ "PING" \in armed => count["PING"] >= 1 \/ (at = "test" /\ tim = "PING")
      /\ "TIMEOUT" \in armed => count["TIMEOUT"] >= 1 \/ (at = "test" /\ tim = "TIMEOUT")
  BY DEF Clock, Timers
<1>3. at # "idle" /\ tim = "TIMEOUT" => "PING" \in armed
  BY DEF Clock
<1> QED
  BY <1>1, <1>2, <1>3, Numbers DEF LeftP, LeftT

\* cm_tick's load takes nothing from what is left.
LEMMA LoadEffect ==
  ASSUME Typed, Clock, Timing, TickLoad
  PROVE  /\ Typed' /\ Clock'
         /\ "PING" \in armed => LeftP' = LeftP
         /\ "TIMEOUT" \in armed => LeftT' = LeftT
         /\ ~Undone' /\ at # "idle"
<1>1. Typed'
  <2>1. /\ at' \in {"idle", "load", "store", "test"} /\ tim' \in Timers
        /\ val' = val \/ val' = count[tim]
        /\ UNCHANGED <<timers, client, link, boardv, lag, failures, missed, restarted>>
    BY Numbers DEF TickLoad, NextTimer, Timers
  <2>2. val' \in 0..Timeout
    <3>1. tim = "PING" => Timeout >= Ping
      BY Numbers DEF Timing
    <3> QED
      BY <2>1, <3>1, Numbers
  <2> QED
    BY <2>1, <2>2 DEF Typed, timers, client, boardv, failures
<1>2. Clock'
  BY Numbers DEF Typed, Clock, Timers, TickLoad, NextTimer, timers, Reload
<1>3. "PING" \in armed => LeftP' = LeftP
  BY Numbers DEF Typed, Clock, Timers, TickLoad, NextTimer, timers, LeftP
<1>4. "TIMEOUT" \in armed => LeftT' = LeftT
  BY Numbers DEF Typed, Clock, Timers, TickLoad, NextTimer, timers, LeftT
<1>5. ~Undone' /\ at # "idle"
  BY Numbers DEF Typed, Timers, TickLoad, NextTimer, timers, Undone
<1> QED
  BY <1>1, <1>2, <1>3, <1>4, <1>5

\* Its store does not either; a cm_timer_set it undoes is a failure.
LEMMA StoreEffect ==
  ASSUME Typed, Clock, Timing, TickStore
  PROVE  /\ Typed' /\ Clock'
         /\ LeftP' = LeftP /\ LeftT' = LeftT
         /\ fails' = IF Undone THEN More(before) ELSE fails
         /\ ~Undone' /\ at # "idle"
<1>0. /\ tim \in armed /\ 1 <= val /\ val <= count[tim] /\ tim \in Timers
      /\ at = "store" /\ at' = "test" /\ tim' = tim /\ armed' = armed
      /\ count' = [count EXCEPT ![tim] = val - 1]
      /\ val - 1 \in Nat /\ val - 1 < count[tim]
      /\ count \in [Timers -> Nat]
  BY Numbers DEF TickStore, Clock, Typed
<1>1. /\ count' \in [Timers -> Nat] /\ count'[tim] = val - 1
      /\ \A t \in Timers : t # tim => count'[t] = count[t]
  BY <1>0
<1>2. Typed'
  <2>1. count'["PING"] <= Ping /\ count'["TIMEOUT"] <= Timeout
    BY <1>0, <1>1, Numbers DEF Timers
  <2> QED
    BY <1>0, <1>1, <2>1, Numbers DEF Typed, TickStore, client, link, boardv
<1>3. Clock'
  BY <1>0, <1>1, Numbers DEF Clock, Timers
<1>4. LeftP' = LeftP
  BY <1>0, <1>1, Numbers DEF Timers, LeftP
<1>5. LeftT' = LeftT
  BY <1>0, <1>1, Numbers DEF Timers, LeftT
<1>6. fails' = IF Undone THEN More(before) ELSE fails
  BY <1>0 DEF TickStore, Undone
<1>7. ~Undone' /\ at # "idle"
  BY <1>0 DEF Undone
<1> QED
  BY <1>2, <1>3, <1>4, <1>5, <1>6, <1>7

\* A timer that expires begins again.
LEMMA TestEffect ==
  ASSUME Typed, Clock, Timing, TickTest
  PROVE  /\ Typed' /\ Clock' /\ ~Undone /\ ~Undone' /\ tim \in armed /\ at # "idle"
         /\ \/ LeftP' = LeftP /\ LeftT' = LeftT /\ inbox' = inbox
            \/ /\ tim = "PING" /\ LeftP = 0
               /\ LeftP' = Ping /\ LeftT' = LeftT /\ inbox' = Append(inbox, "PING")
            \/ /\ tim = "TIMEOUT" /\ LeftT = 0 /\ LeftP >= 1 /\ at' = "idle"
               /\ LeftP' = LeftP /\ LeftT' = Timeout /\ inbox' = Append(inbox, "TIMEOUT")
<1>0. /\ at = "test" /\ tim \in armed /\ tim \in Timers /\ armed' = armed
      /\ count \in [Timers -> Nat] /\ Reload[tim] \in Nat /\ Reload[tim] >= 1
      /\ \/ tim = "PING" /\ at' = "load" /\ tim' = "TIMEOUT"
         \/ tim = "TIMEOUT" /\ at' = "idle" /\ tim' = tim /\ "PING" \in armed
      /\ UNCHANGED <<armed, val, setting, connected, ended, link, boardv, lag, failures, missed, restarted>>
  <2>1. /\ at = "test" /\ tim \in armed /\ (tim = "TIMEOUT" => "PING" \in armed)
    BY DEF TickTest, TickTestWith, Clock
  <2>2. tim \in Timers /\ count \in [Timers -> Nat]
    BY DEF Typed
  <2>3. Reload[tim] \in Nat /\ Reload[tim] >= 1
    BY Numbers DEF Timing
  <2>4. NextTimer /\ armed' = armed
        /\ UNCHANGED <<armed, val, setting, connected, ended, link, boardv, lag, failures, missed, restarted>>
    BY DEF TickTest, TickTestWith
  <2> QED
    BY <2>1, <2>2, <2>3, <2>4 DEF NextTimer, Timers
<1>1. CASE count[tim] = 0
  <2>1. count' = [count EXCEPT ![tim] = Reload[tim]] /\ inbox' = Append(inbox, tim)
    BY <1>1 DEF TickTest, TickTestWith
  <2>2. /\ count' \in [Timers -> Nat] /\ count'[tim] = Reload[tim]
        /\ \A t \in Timers : t # tim => count'[t] = count[t]
    BY <1>0, <2>1
  <2>3. Typed'
    <3>1. count'["PING"] <= Ping /\ count'["TIMEOUT"] <= Timeout
      BY <1>0, <2>2, Numbers DEF Timers
    <3> QED
      BY <1>0, <2>2, <3>1, Numbers DEF Typed, Timers, client, link, boardv, failures
  <2>4. Clock'
    BY <1>0, <2>2, Numbers DEF Clock, Timers
  <2>5. CASE tim = "PING"
    BY <1>0, <1>1, <2>1, <2>2, <2>3, <2>4, <2>5, Numbers DEF Timers, LeftP, LeftT, Undone
  <2>6. CASE tim = "TIMEOUT"
    <3>1. LeftP >= 1
      BY <1>0, <2>6, LeftBounds
    <3> QED
      BY <1>0, <1>1, <2>1, <2>2, <2>3, <2>4, <2>6, <3>1, Numbers DEF Timers, LeftP, LeftT, Undone
  <2> QED
    BY <1>0, <2>5, <2>6
<1>2. CASE count[tim] # 0
  <2>1. count' = count /\ inbox' = inbox
    BY <1>2 DEF TickTest, TickTestWith
  <2>2. Typed'
    BY <1>0, <2>1, Numbers DEF Typed, Timers, client, link, boardv, failures
  <2>3. Clock'
    <3>1. \A t \in Timers : count[t] \in Nat
      BY <1>0
    <3> QED
      BY <1>0, <1>2, <2>1, <3>1, Numbers DEF Clock, Timers
  <2>4. LeftP' = LeftP /\ LeftT' = LeftT
    BY <1>0, <2>1, Numbers DEF Timers, LeftP, LeftT
  <2> QED
    BY <1>0, <2>1, <2>2, <2>3, <2>4 DEF Undone
<1> QED
  BY <1>1, <1>2

\* cm_timer_set of the ping timer: a full period, less the pass under way, unless
\* the timer thread undoes it.
LEMMA SetPingEffect ==
  ASSUME Typed, Clock, Timing, SetTimer("PING"), UNCHANGED tick
  PROVE  /\ count' \in [Timers -> Nat] /\ count'["PING"] <= Ping /\ count'["TIMEOUT"] <= Timeout
         /\ armed' = armed \cup {"PING"} /\ Clock'
         /\ LeftT' = LeftT /\ (Undone' <=> Undone)
         /\ \/ LeftP' = Ping
            \/ LeftP' = Ping - 1 /\ at = "load" /\ tim = "PING"
            \/ LeftP' = LeftP /\ "PING" \in armed
<1>0. /\ at' = at /\ tim' = tim /\ val' = val /\ tim \in Timers
      /\ armed' = armed \cup {"PING"} /\ count \in [Timers -> Nat]
      /\ count' = [count EXCEPT !["PING"] = Ping]
  BY Numbers DEF tick, SetTimer, Typed
<1>1. /\ count' \in [Timers -> Nat] /\ count'["PING"] = Ping /\ count'["TIMEOUT"] = count["TIMEOUT"]
  BY <1>0, Numbers DEF Timers
<1>2. Clock'
  <2>1. /\ at' = "store" => tim' \in armed' /\ val' \in 1..Reload[tim'] /\ val' <= count'[tim']
    BY <1>0, <1>1, Numbers DEF Clock
  <2>2. \A t \in Timers : IF t \in armed' THEN count'[t] >= 1 \/ (at' = "test" /\ tim' = t)
                                          ELSE count'[t] = 0
    BY <1>0, <1>1, Numbers DEF Clock, Timers
  <2> QED
    BY <1>0, <2>1, <2>2 DEF Clock
<1>3. LeftT' = LeftT
  BY <1>0, <1>1, Numbers DEF LeftT
<1>4. Undone' <=> Undone
  BY <1>0, <1>1 DEF Undone
<1>5. at = "store" => tim \in armed
  BY DEF Clock
<1>6. \/ LeftP' = Ping
      \/ LeftP' = Ping - 1 /\ at = "load" /\ tim = "PING"
      \/ LeftP' = LeftP /\ "PING" \in armed
  BY <1>0, <1>1, <1>5, Numbers DEF LeftP
<1> QED
  BY <1>0, <1>1, <1>2, <1>3, <1>4, <1>6, Numbers

\* The same of the timeout.
LEMMA SetTimeoutEffect ==
  ASSUME Typed, Clock, Timing, SetTimer("TIMEOUT"), UNCHANGED tick
  PROVE  /\ count' \in [Timers -> Nat] /\ count'["PING"] <= Ping /\ count'["TIMEOUT"] <= Timeout
         /\ armed' = armed \cup {"TIMEOUT"} /\ Clock'
         /\ LeftP' = LeftP
         /\ Undone' => LeftT' = LeftT /\ "TIMEOUT" \in armed
         /\ ~Undone' => LeftT' >= Timeout - 1
         /\ LeftT' = Timeout \/ LeftT' >= LeftT
<1>0. /\ at' = at /\ tim' = tim /\ val' = val /\ tim \in Timers
      /\ armed' = armed \cup {"TIMEOUT"} /\ count \in [Timers -> Nat]
      /\ count' = [count EXCEPT !["TIMEOUT"] = Timeout]
  BY Numbers DEF tick, SetTimer, Typed
<1>1. /\ count' \in [Timers -> Nat] /\ count'["TIMEOUT"] = Timeout /\ count'["PING"] = count["PING"]
  BY <1>0, Numbers DEF Timers
<1>2. Timeout >= 1
  BY Numbers DEF Timing
<1>3. Clock'
  <2>1. /\ at' = "store" => tim' \in armed' /\ val' \in 1..Reload[tim'] /\ val' <= count'[tim']
    BY <1>0, <1>1, Numbers DEF Clock
  <2>2. \A t \in Timers : IF t \in armed' THEN count'[t] >= 1 \/ (at' = "test" /\ tim' = t)
                                          ELSE count'[t] = 0
    BY <1>0, <1>1, <1>2, Numbers DEF Clock, Timers
  <2> QED
    BY <1>0, <2>1, <2>2 DEF Clock
<1>4. LeftP' = LeftP
  BY <1>0, <1>1, Numbers DEF LeftP
<1>5. at = "store" => tim \in armed
  BY DEF Clock
<1>6. Undone' => LeftT' = LeftT /\ "TIMEOUT" \in armed
  BY <1>0, <1>1, <1>5, Numbers DEF LeftT, Undone
<1>7. ~Undone' => LeftT' >= Timeout - 1
  BY <1>0, <1>1, Numbers DEF LeftT, Undone
<1>8. LeftT' = Timeout \/ LeftT' >= LeftT
  BY <1>0, <1>1, Numbers DEF LeftT
<1> QED
  BY <1>0, <1>1, <1>3, <1>4, <1>6, <1>7, <1>8, Numbers

\* Every other step but a pass leaves the timers alone.
LEMMA NoEffect ==
  ASSUME Typed, Clock, UNCHANGED <<timers, tick>>
  PROVE  Clock' /\ LeftP' = LeftP /\ LeftT' = LeftT /\ (Undone' <=> Undone)
<1>1. UNCHANGED <<armed, count, at, tim, val>>
  BY DEF timers, tick
<1> QED
  BY <1>1 DEF Clock, LeftP, LeftT, Undone

\* A pass of cm_tick takes one from each timer.
LEMMA PassEffect ==
  ASSUME Typed, Clock, Timing, Pass, ended = "no"
  PROVE  Clock' /\ LeftP' = LeftP - 1 /\ LeftT' = LeftT - 1 /\ ~Undone /\ ~Undone' /\ at = "idle"
<1>1. /\ at = "idle" /\ at' = "load" /\ tim' = "PING" /\ UNCHANGED <<armed, count, val>>
  BY DEF Pass, timers
<1> QED
  BY <1>1, Numbers DEF Clock, LeftP, LeftT, Undone

-----------------------------------------------------------------------------
(***************************************************************************)
(* The steps of a host that has not ended.                                 *)
(***************************************************************************)

\* A message under way is seen by the bound on time.
LEMMA UnderWayIs ==
  ASSUME ended = "no", NEW e \in Exchanges, Shaped(e)
  PROVE  (e # "none" => UnderWay) /\ (Late(inbox) => UnderWay)
<1>1. Late(inbox) => inbox # <<>>
  BY DEF Late
<1>2. \A x : Holds(inbox, x) => inbox # <<>>
  BY DEF Holds
<1>3. e \in {"none", "open", "reg", "ping", "resp", "set"}
  BY DEF Exchanges
<1> QED
  BY <1>1, <1>2, <1>3, Singles DEF Shaped, UnderWay

\* A pass: what is left and what has gone by change together.
LEMMA StepPass ==
  ASSUME Timing, Typed, Clock, ended = "no", NEW e \in Exchanges, Live(e), Pass
  PROVE  Typed' /\ Clock' /\ ended' = "no" /\ Live(e)' /\ ~Undone'
<1>1. /\ Clock' /\ LeftP' = LeftP - 1 /\ LeftT' = LeftT - 1 /\ ~Undone /\ ~Undone' /\ at = "idle"
      /\ LeftP \in Int /\ LeftT \in Int
  BY PassEffect, LeftBounds
<1>2. /\ UNCHANGED <<armed, count, val, inbox, setting, connected, ended, down, up, bconn,
                     fails, before, missed, restarted>>
      /\ UnderWay => lag' = lag + 1 /\ lag < MaxLag
      /\ ~UnderWay => lag' = 0
      /\ quiet' = IF quiet > FwTimeout THEN quiet ELSE quiet + 1
      /\ at' = "load" /\ tim' = "PING"
  BY DEF Pass, timers, client, link, failures
<1>3. (e # "none" => UnderWay) /\ (Late(inbox) => UnderWay)
  BY UnderWayIs DEF Live
<1>4. /\ lag \in 0..MaxLag /\ quiet \in 0..FwTimeout+1 /\ missed \in 0..Many /\ fails \in 0..Many /\ before \in 0..Many
  BY DEF Typed
<1>5. lag' \in 0..MaxLag /\ quiet' \in 0..FwTimeout+1 /\ quiet' <= quiet + 1 /\ quiet \in Nat /\ lag \in Nat
  BY <1>2, <1>4, Numbers
<1>6. Typed'
  BY <1>2, <1>5 DEF Typed, Timers
<1>7. Shaped(e)'
  BY <1>2 DEF Live, Shaped
<1>8. Phase(e)'
  BY <1>2, <1>3, <1>4 DEF Live, Phase
<1>9. Patience(e)'
  BY <1>1, <1>2, <1>3, <1>4, <1>5, Numbers DEF Live, Patience, Bound
<1>10. Given(e)'
  BY <1>1, <1>2, <1>3, <1>4, <1>5, Numbers DEF Live, Given, Ahead, Slack, Times
<1> QED
  BY <1>1, <1>2, <1>6, <1>7, <1>8, <1>9, <1>10 DEF Live

\* The load of a count changes nothing that counts.
LEMMA StepLoad ==
  ASSUME Timing, Typed, Clock, ended = "no", NEW e \in Exchanges, Live(e), TickLoad
  PROVE  Typed' /\ Clock' /\ ended' = "no" /\ Live(e)' /\ ~Undone'
<1>1. /\ Typed' /\ Clock' /\ ~Undone' /\ at # "idle"
      /\ "PING" \in armed => LeftP' = LeftP
      /\ "TIMEOUT" \in armed => LeftT' = LeftT
  BY LoadEffect
<1>2. /\ UNCHANGED <<armed, count, inbox, setting, connected, ended, down, up, bconn, quiet, lag,
                     fails, before, missed, restarted>>
  BY DEF TickLoad, timers, client, link, boardv, failures
<1>3. at # "store"
  BY DEF TickLoad
<1>4. connected => "PING" \in armed
  BY DEF Live, Phase, Exchanges, Timers
<1>5. Late(inbox) => "TIMEOUT" \in armed
  <2>1. Late(inbox) => inbox # <<>> /\ inbox # <<"REG">>
    BY DEF Late
  <2> QED
    BY <2>1 DEF Live, Shaped, Phase, Exchanges, Timers
<1>6. Shaped(e)'
  BY <1>2 DEF Live, Shaped
<1>7. Phase(e)'
  BY <1>1, <1>2 DEF Live, Phase
<1>8. Patience(e)'
  <2>1. e \in {"ping", "resp", "set"} => "PING" \in armed
    BY <1>4 DEF Live, Phase
  <2> QED
    BY <1>1, <1>2, <1>4, <2>1 DEF Live, Patience
<1>9. Given(e)'
  <2>1. ~Undone
    BY <1>3 DEF Undone
  <2>2. "TIMEOUT" \in armed => "PING" \in armed
    BY DEF Typed, Timers
  <2>3. Late(inbox)' => Late(inbox)
    BY <1>2
  <2>4. "TIMEOUT" \in armed => Ahead' = Ahead
    BY <1>1, <2>2 DEF Ahead
  <2> QED
    BY <1>1, <1>2, <1>5, <2>1, <2>3, <2>4 DEF Live, Given
<1> QED
  BY <1>1, <1>2, <1>6, <1>7, <1>8, <1>9 DEF Live

\* A cm_timer_set that the store undoes becomes one more failure.
LEMMA StepStore ==
  ASSUME Timing, Typed, Clock, ended = "no", NEW e \in Exchanges, Live(e), TickStore,
         Undone => fails = 0
  PROVE  Typed' /\ Clock' /\ ended' = "no" /\ Live(e)' /\ ~Undone'
<1>1. /\ Typed' /\ Clock' /\ ~Undone' /\ at # "idle"
      /\ LeftP' = LeftP /\ LeftT' = LeftT
      /\ fails' = IF Undone THEN More(before) ELSE fails
  BY StoreEffect
<1>2. UNCHANGED <<armed, inbox, setting, connected, ended, down, up, bconn, quiet, lag,
                  before, missed, restarted>>
  BY DEF TickStore, client, link, boardv
<1>3. Shaped(e)'
  BY <1>2 DEF Live, Shaped
<1>4. Phase(e)'
  BY <1>1, <1>2 DEF Live, Phase
<1>5. Patience(e)'
  BY <1>1, <1>2 DEF Live, Patience
<1>6. Given(e)'
  <2>1. Ahead' = Ahead /\ (Late(inbox)' <=> Late(inbox))
    BY <1>1, <1>2 DEF Ahead
  <2>2. CASE ~Undone
    BY <1>1, <1>2, <2>1, <2>2 DEF Live, Given
  <2>3. CASE Undone
    <3>1. /\ e = "none" /\ fails = 0 /\ fails' = More(before)
          /\ before \in 0..Many /\ More(before) >= before /\ (before <= 4 => More(before) = before + 1)
          /\ before <= 1 => Ahead <= Times(before + 1) + 1
          /\ Slack(e) = 0
      BY <1>1, <2>3, Numbers DEF Live, Given, Typed, Slack
    <3>2. Late(inbox) => inbox = <<"TIMEOUT">> /\ Head(inbox) # "RESP"
      BY <3>1, TakePlain DEF Live, Shaped, Late
    <3>3. fails' <= 2 => Ahead' <= Times(fails)' + 1 + Slack(e)
      <4>0. before \in 0..5 /\ More(before) \in 0..5
        BY <3>1, Numbers DEF Many
      <4>1. fails' <= 2 => before <= 1 /\ fails' = before + 1
        BY <3>1, <4>0
      <4>2. \A n : Times(n) \in Int
        BY Numbers DEF Times
      <4> QED
        BY <2>1, <3>1, <4>1, <4>2, LeftBounds DEF Ahead
    <3> QED
      BY <1>1, <1>2, <2>1, <3>1, <3>2, <3>3 DEF Live, Given, Many
  <2> QED
    BY <2>2, <2>3
<1> QED
  BY <1>1, <1>2, <1>3, <1>4, <1>5, <1>6 DEF Live

\* A timer that expires: the next ping, or the end of the host's patience.
LEMMA StepTest ==
  ASSUME Timing, Typed, Clock, ended = "no", NEW e \in Exchanges, Live(e), TickTest
  PROVE  /\ Typed' /\ Clock' /\ ended' = "no" /\ ~Undone'
         /\ \E f \in Exchanges : Live(f)'
<1>1. /\ Typed' /\ Clock' /\ ~Undone /\ ~Undone' /\ tim \in armed /\ at # "idle"
      /\ LeftP \in Int /\ LeftT \in Int
  BY TestEffect, LeftBounds
<1>2. UNCHANGED <<armed, setting, connected, ended, down, up, bconn, quiet, lag, fails,
                  before, missed, restarted>>
  BY DEF TickTest, TickTestWith, link, boardv, failures
<1>3. /\ lag \in 0..MaxLag /\ quiet \in 0..FwTimeout+1 /\ missed \in 0..Many /\ fails \in 0..Many /\ before \in 0..Many
  BY DEF Typed
<1>4. /\ armed # {} /\ (connected => "PING" \in armed)
  BY <1>1 DEF Live, Phase, Exchanges, Timers
<1>5. /\ connected /\ e \in {"none", "ping", "resp", "set"}
      /\ Plain(inbox) \/ Holds(inbox, "PING") \/ Holds(inbox, "RESP")
  BY <1>4 DEF Live, Phase, Shaped, Exchanges
<1>6. CASE LeftP' = LeftP /\ LeftT' = LeftT /\ inbox' = inbox
  <2>1. Shaped(e)'
    BY <1>2, <1>6 DEF Live, Shaped
  <2>2. Phase(e)'
    BY <1>1, <1>2, <1>6 DEF Live, Phase
  <2>3. Patience(e)'
    BY <1>2, <1>6 DEF Live, Patience
  <2>4. Given(e)'
    <3>1. Ahead' = Ahead /\ (Late(inbox)' <=> Late(inbox))
      BY <1>6 DEF Ahead
    <3> QED
      BY <1>1, <1>2, <1>6, <3>1 DEF Live, Given
  <2> QED
    BY <1>1, <1>2, <2>1, <2>2, <2>3, <2>4 DEF Live
<1>7. CASE /\ tim = "PING" /\ LeftP = 0
           /\ LeftP' = Ping /\ LeftT' = LeftT /\ inbox' = Append(inbox, "PING")
  <2>1. e = "none"
    <3>1. Ping > MaxLag
      BY Numbers DEF Timing
    <3>2. e # "none" => Ping - 0 <= lag
      BY <1>5, <1>7 DEF Live, Patience
    <3> QED
      BY <1>3, <3>1, <3>2, Numbers
  <2>2. /\ Plain(inbox) /\ Holds(inbox', "PING") /\ (Late(inbox') <=> Late(inbox))
        /\ Head(inbox') # "RESP"
    BY <1>7, <2>1, AddPing DEF Live, Shaped
  <2>3. Shaped("ping")'
    BY <1>2, <2>1, <2>2 DEF Live, Shaped
  <2>4. Phase("ping")'
    BY <1>2, <1>5, <2>1 DEF Live, Phase
  <2>5. Patience("ping")'
    <3>1. Ping - LeftP' <= lag' /\ quiet \in Nat
      BY <1>2, <1>3, <1>7, Numbers
    <3>2. missed <= 1 => quiet + 0 <= Bound(missed) + 0
      BY <1>5, <1>7, <2>1 DEF Live, Patience
    <3>3. missed <= 1 => quiet + LeftP' <= Bound(missed) + Ping
      <4>1. PICK b \in Nat, p \in Nat : b = Bound(missed) /\ p = Ping
        BY Amounts, Numbers
      <4> QED
        BY <1>7, <3>1, <3>2, <4>1
    <3> QED
      BY <1>2, <1>5, <3>1, <3>3 DEF Live, Patience, Bound
  <2>6. Given("ping")'
    <3>1. "TIMEOUT" \in armed /\ fails <= 2 => (Timeout - LeftT) - (Ping - 0) <= Times(fails) + 1 + 0
      BY <1>1, <1>7, <2>1, Amounts DEF Live, Given, Ahead
    <3>2. "TIMEOUT" \in armed /\ fails <= 2 => (Timeout - LeftT) - (Ping - Ping) <= Times(fails) + 1 + Ping
      BY <1>1, <3>1, Amounts, Numbers
    <3>3. "TIMEOUT" \in armed' /\ fails' <= 2 => Ahead' <= Times(fails)' + 1 + Slack("ping")
      BY <1>2, <1>7, <3>2, Amounts DEF Ahead
    <3>4. Late(inbox') => Timeout - LeftT' <= lag /\ (fails >= 3 \/ before >= 3)
      BY <1>7, <2>2 DEF Live, Given
    <3> QED
      BY <1>1, <1>2, <2>2, <3>3, <3>4 DEF Given
  <2> QED
    BY <1>1, <1>2, <2>3, <2>4, <2>5, <2>6 DEF Live, Exchanges
<1>8. CASE /\ tim = "TIMEOUT" /\ LeftT = 0 /\ LeftP >= 1 /\ at' = "idle"
           /\ LeftP' = LeftP /\ LeftT' = Timeout /\ inbox' = Append(inbox, "TIMEOUT")
  <2>1. armed = Timers /\ "TIMEOUT" \in armed
    BY <1>1, <1>5, <1>8 DEF Live, Phase, Timers
  <2>2. ~Late(inbox)
    <3>1. Timeout > MaxLag
      BY Numbers DEF Timing
    <3> QED
      BY <1>3, <1>8, <3>1, Numbers DEF Live, Given
  <2>3. Late(inbox')
    BY <1>5, <1>8, <2>2, AddTimeout
  <2>4. Shaped(e)'
    <3>1. Plain(inbox) => Plain(inbox')
      BY <1>8, <2>2, AddTimeout DEF Plain
    <3>2. \A x \in {"PING", "RESP"} : Holds(inbox, x) => Holds(inbox', x)
      BY <1>8, <2>2, AddTimeout DEF Holds
    <3> QED
      BY <1>2, <1>5, <3>1, <3>2 DEF Live, Shaped
  <2>5. Phase(e)'
    BY <1>2, <1>5, <2>1 DEF Live, Phase
  <2>6. Patience(e)'
    BY <1>2, <1>8 DEF Live, Patience
  <2>7. fails >= 3
    <3>1. LeftP >= 1 /\ (e # "none" => Ping - LeftP <= lag)
      BY <1>5, <1>8 DEF Live, Patience
    <3>2. fails <= 2 => (Timeout - LeftT) - (Ping - LeftP) <= Times(fails) + 1 + Slack(e)
      BY <1>1, <2>1 DEF Live, Given, Ahead
    <3>3. Times(fails) <= 2 * (Ping + MaxLag) /\ Times(fails) \in Nat
      BY Amounts
    <3>4. /\ e = "none" => Slack(e) = 0
          /\ e # "none" => Slack(e) <= Ping + MaxLag /\ Slack(e) \in Nat
      BY <1>5, Amounts, Numbers
    <3>5. fails \in Nat /\ lag \in Nat /\ lag <= MaxLag
      BY <1>3, Numbers
    <3>6. Timeout = 4 * Ping /\ Ping > 4 * MaxLag + 1
      BY DEF Timing
    <3> HIDE DEF Times, Slack
    <3>7. PICK p \in Int, m \in Nat, l \in Int, x \in Nat, s \in Nat, g \in Nat :
            p = Ping /\ m = MaxLag /\ l = LeftP /\ x = Times(fails) /\ s = Slack(e) /\ g = lag
      BY <1>1, <3>3, <3>4, <3>5, Numbers
    <3>8. fails <= 2 => 4 * p - (p - l) <= x + 1 + s
      BY <1>8, <3>2, <3>6, <3>7
    <3>9. CASE e = "none"
      <4>1. fails <= 2 => 4 * p - (p - l) <= 2 * (p + m) + 1
        BY <3>3, <3>4, <3>7, <3>8, <3>9
      <4> QED
        BY <3>1, <3>5, <3>6, <3>7, <4>1
    <3>10. CASE e # "none"
      <4>1. fails <= 2 => 4 * p - (p - l) <= 2 * (p + m) + 1 + (p + m)
        BY <3>3, <3>4, <3>7, <3>8, <3>10
      <4>2. p - l <= m
        BY <3>1, <3>5, <3>7, <3>10
      <4> QED
        BY <3>5, <3>6, <3>7, <4>1, <4>2
    <3> QED
      BY <3>9, <3>10
  <2>8. Given(e)'
    <3>1. Timeout - LeftT' <= lag'
      BY <1>2, <1>3, <1>8, Numbers
    <3>2. fails' >= 3 /\ ~(fails' <= 2)
      BY <1>2, <1>3, <2>7
    <3> QED
      BY <1>1, <3>1, <3>2 DEF Given
  <2> QED
    BY <1>1, <1>2, <2>4, <2>5, <2>6, <2>8 DEF Live
<1> QED
  BY <1>1, <1>2, <1>6, <1>7, <1>8, TestEffect

\* Whose message the client takes.
LEMMA TakeWhich ==
  ASSUME NEW e \in Exchanges, Shaped(e), ~setting, inbox # <<>>
  PROVE  /\ Head(inbox) = "PING" => e = "ping" /\ down = <<>> /\ Holds(inbox, "PING")
         /\ Head(inbox) = "TIMEOUT" => e \in {"none", "ping", "resp"} /\ Late(inbox)
         /\ Head(inbox) = "REG" => e = "reg" /\ up = <<>> /\ Tail(inbox) = <<>>
         /\ Head(inbox) = "RESP" => e = "resp" /\ up = <<>> /\ Holds(inbox, "RESP")
<1>1. Plain(inbox) => Head(inbox) = "TIMEOUT" /\ Late(inbox)
  BY TakePlain
<1>2. Holds(inbox, "PING") => /\ Head(inbox) \in {"PING", "TIMEOUT"}
                              /\ Head(inbox) = "TIMEOUT" => Late(inbox)
  BY TakeOne
<1>3. Holds(inbox, "RESP") => /\ Head(inbox) \in {"RESP", "TIMEOUT"}
                              /\ Head(inbox) = "TIMEOUT" => Late(inbox)
  BY TakeOne
<1>4. inbox = <<"REG">> => Head(inbox) = "REG" /\ Tail(inbox) = <<>>
  OBVIOUS
<1>5. <<"PING">> # <<>> /\ <<"REG">> # <<>> /\ <<"RESP">> # <<>>
  OBVIOUS
<1>6. e \in {"none", "open", "reg", "ping", "resp", "set"}
  BY DEF Exchanges
<1> QED
  BY <1>1, <1>2, <1>3, <1>4, <1>5, <1>6 DEF Shaped

\* A message reaches the host.
LEMMA StepReceive ==
  ASSUME Timing, Typed, Clock, ended = "no", NEW e \in Exchanges, Live(e), Receive
  PROVE  Typed' /\ Clock' /\ ended' = "no" /\ Live(e)' /\ (Undone' <=> Undone)
<1>1. /\ up # <<>> /\ up' = Tail(up) /\ inbox' = Append(inbox, Head(up))
      /\ UNCHANGED <<timers, tick, setting, connected, ended, down, bconn, quiet, lag, fails, before,
                     missed, restarted>>
      /\ armed' = armed /\ count' = count /\ at' = at /\ tim' = tim /\ val' = val
  BY DEF Receive, boardv, failures, timers, tick
<1>2. Clock' /\ LeftP' = LeftP /\ LeftT' = LeftT /\ (Undone' <=> Undone)
  BY <1>1, NoEffect
<1>3. Typed'
  BY <1>1 DEF Typed
<1>4. e = "reg" \/ e = "resp"
  BY <1>1 DEF Live, Shaped, Exchanges
<1>5. CASE e = "reg"
  <2>1. up' = <<>> /\ inbox' = <<"REG">> /\ inbox = <<>>
    <3>1. up = <<"REG">> /\ inbox = <<>>
      BY <1>1, <1>5 DEF Live, Shaped
    <3> QED
      BY <1>1, <3>1, Singles
  <2>2. Shaped(e)'
    BY <1>1, <1>5, <2>1 DEF Live, Shaped
  <2>3. Phase(e)'
    BY <1>1, <1>5 DEF Live, Phase
  <2>4. Patience(e)'
    BY <1>1, <1>2 DEF Live, Patience
  <2>5. Given(e)'
    <3>1. ~Late(inbox') /\ Ahead' = Ahead
      BY <1>2, <2>1, Singles DEF Ahead
    <3> QED
      BY <1>1, <1>2, <3>1 DEF Live, Given
  <2> QED
    BY <1>1, <1>2, <1>3, <2>2, <2>3, <2>4, <2>5 DEF Live
<1>6. CASE e = "resp"
  <2>1. /\ up' = <<>> /\ Holds(inbox', "RESP") /\ (Late(inbox') <=> Late(inbox))
        /\ Late(inbox) => Head(inbox') # "RESP"
    <3>1. up = <<"RESP">> /\ Plain(inbox)
      BY <1>1, <1>6 DEF Live, Shaped
    <3>2. up' = <<>> /\ inbox' = Append(inbox, "RESP")
      BY <1>1, <3>1, Singles
    <3> QED
      BY <3>1, <3>2, AddResp, Singles
  <2>2. Shaped(e)'
    BY <1>1, <1>6, <2>1 DEF Live, Shaped
  <2>3. Phase(e)'
    BY <1>1, <1>6 DEF Live, Phase
  <2>4. Patience(e)'
    BY <1>1, <1>2 DEF Live, Patience
  <2>5. Given(e)'
    <3>1. Ahead' = Ahead
      BY <1>2 DEF Ahead
    <3> QED
      BY <1>1, <1>2, <1>6, <2>1, <3>1 DEF Live, Given
  <2> QED
    BY <1>1, <1>2, <1>3, <2>2, <2>3, <2>4, <2>5 DEF Live
<1> QED
  BY <1>1, <1>2, <1>3, <1>4, <1>5, <1>6

\* The client sends a ping.
LEMMA StepPingTimer ==
  ASSUME Timing, Typed, Clock, ended = "no", NEW e \in Exchanges, Live(e), PingTimer
  PROVE  Typed' /\ Clock' /\ ended' = "no" /\ Live(e)' /\ (Undone' <=> Undone)
<1>1. /\ Take("PING") /\ down' = Append(down, "PING")
      /\ UNCHANGED <<timers, tick, setting, connected, ended, up, bconn, quiet, lag, fails, before,
                     missed, restarted>>
      /\ armed' = armed /\ count' = count /\ at' = at /\ tim' = tim /\ val' = val
  BY DEF PingTimer, boardv, failures, timers, tick
<1>2. Clock' /\ LeftP' = LeftP /\ LeftT' = LeftT /\ (Undone' <=> Undone)
  BY <1>1, NoEffect
<1>3. Typed'
  BY <1>1 DEF Typed
<1>4. /\ e = "ping" /\ down = <<>> /\ Holds(inbox, "PING") /\ ~setting
      /\ Head(inbox) = "PING" /\ inbox' = Tail(inbox)
  BY <1>1, TakeWhich DEF Take, Live
<1>5. Plain(inbox') /\ (Late(inbox') => Late(inbox) /\ Head(inbox') # "RESP")
  <2>1. Plain(inbox') /\ (Late(inbox') => Late(inbox))
    BY <1>4, TakeOne
  <2> QED
    BY <2>1, TakePlain
<1>6. down' = <<"PING">>
  BY <1>1, <1>4, Singles
<1>7. Shaped(e)'
  BY <1>1, <1>4, <1>5, <1>6 DEF Live, Shaped
<1>8. Phase(e)'
  BY <1>1, <1>4 DEF Live, Phase
<1>9. Patience(e)'
  BY <1>1, <1>2 DEF Live, Patience
<1>10. Given(e)'
  <2>1. Ahead' = Ahead
    BY <1>2 DEF Ahead
  <2> QED
    BY <1>1, <1>2, <1>4, <1>5, <2>1 DEF Live, Given
<1> QED
  BY <1>1, <1>2, <1>3, <1>7, <1>8, <1>9, <1>10 DEF Live

\* What is on its way when the host gives up or has done.
LEMMA StepPingTimeout ==
  ASSUME Timing, Typed, Clock, ended = "no", NEW e \in Exchanges, Live(e), PingTimeout,
         Undone => fails = 0
  PROVE  Typed' /\ Clock' /\ ended' = "timeout" /\ Over' /\ (Undone' <=> Undone)
<1>1. /\ Take("TIMEOUT") /\ ended' = "timeout"
      /\ UNCHANGED <<timers, tick, setting, connected, down, up, bconn, quiet, lag, fails, before,
                     missed, restarted>>
      /\ armed' = armed /\ count' = count /\ at' = at /\ tim' = tim /\ val' = val
  BY DEF PingTimeout, link, boardv, failures, timers, tick
<1>2. Clock' /\ LeftP' = LeftP /\ LeftT' = LeftT /\ (Undone' <=> Undone)
  BY <1>1, NoEffect
<1>3. Typed'
  BY <1>1 DEF Typed
<1>4. /\ e \in {"none", "ping", "resp"} /\ Late(inbox) /\ ~setting
      /\ Head(inbox) = "TIMEOUT" /\ inbox' = Tail(inbox) /\ inbox # <<>>
  BY <1>1, TakeWhich DEF Take, Live
<1>5. /\ connected /\ armed = Timers
  BY <1>4 DEF Live, Phase
<1>6. /\ Timeout - LeftT <= lag /\ (fails >= 3 \/ before >= 3)
      /\ e # "none" => Ping - LeftP <= lag
  BY <1>4 DEF Live, Given, Patience
<1>7. LeftT # 0 /\ (e # "none" => LeftP # 0)
  <2>1. lag \in Nat /\ lag <= MaxLag
    BY Numbers DEF Typed
  <2>2. Ping > MaxLag /\ Timeout > MaxLag
    BY Numbers DEF Timing
  <2> QED
    BY <1>6, <2>1, <2>2, LeftBounds, Numbers
<1>8. /\ e = "none" => inbox' = <<>>
      /\ e = "ping" /\ down = <<>> => inbox' = <<"PING">>
      /\ e = "ping" /\ down # <<>> => inbox' = <<>>
      /\ e = "resp" /\ up = <<>> => inbox' = <<"RESP">>
      /\ e = "resp" /\ up # <<>> => inbox' = <<>>
  <2>1. Plain(inbox) => inbox' = <<>>
    BY <1>4, TakePlain
  <2>2. /\ Holds(inbox, "PING") => inbox' = <<"PING">>
        /\ Holds(inbox, "RESP") => inbox' = <<"RESP">>
    BY <1>4, TakeOne
  <2>3. <<"PING">> # <<>> /\ <<"RESP">> # <<>>
    OBVIOUS
  <2> QED
    BY <2>1, <2>2, <2>3 DEF Live, Shaped
<1>9. /\ Plain(inbox') \/ Holds(inbox', "PING") \/ Holds(inbox', "RESP")
      /\ ~Late(inbox')
      /\ e = "none" => Plain(inbox')
  BY <1>4, <1>8, Singles
<1>10. /\ down \in {<<>>, <<"PING">>}
       /\ up = <<>> \/ (up = <<"RESP">> /\ down = <<>>)
       /\ e = "none" => down = <<>> /\ up = <<>>
  BY <1>4 DEF Live, Shaped
<1>11. Undone => e = "none" /\ fails = 0
  BY DEF Live, Given
<1>12. Over'
  BY <1>1, <1>2, <1>5, <1>6, <1>7, <1>9, <1>10, <1>11 DEF Over
<1> QED
  BY <1>1, <1>2, <1>3, <1>12

\* The same when the acquisition is done, which happens at any time.
LEMMA StepClose ==
  ASSUME Timing, Typed, Clock, ended = "no", NEW e \in Exchanges, Live(e), Close,
         Undone => fails = 0
  PROVE  Typed' /\ Clock' /\ ended' = "done" /\ Over' /\ (Undone' <=> Undone)
<1>1. /\ connected /\ ~setting /\ down' = Append(down, "CLOSE") /\ ended' = "done"
      /\ UNCHANGED <<timers, tick, inbox, setting, connected, up, bconn, quiet, lag, fails, before,
                     missed, restarted>>
      /\ armed' = armed /\ count' = count /\ at' = at /\ tim' = tim /\ val' = val
  BY DEF Close, boardv, failures, timers, tick
<1>2. Clock' /\ LeftP' = LeftP /\ LeftT' = LeftT /\ (Undone' <=> Undone)
  BY <1>1, NoEffect
<1>3. Typed'
  BY <1>1 DEF Typed
<1>4. e \in {"none", "ping", "resp"} /\ armed = Timers
  BY <1>1 DEF Live, Shaped, Phase, Exchanges
<1>5. /\ Late(inbox) => Timeout - LeftT <= lag
      /\ e # "none" => Ping - LeftP <= lag
  BY <1>4 DEF Live, Given, Patience
<1>6. (Late(inbox) => LeftT # 0) /\ (e # "none" => LeftP # 0)
  <2>1. lag \in Nat /\ lag <= MaxLag
    BY Numbers DEF Typed
  <2>2. Ping > MaxLag /\ Timeout > MaxLag
    BY Numbers DEF Timing
  <2> QED
    BY <1>5, <2>1, <2>2, LeftBounds, Numbers
<1>7. /\ Plain(inbox) \/ Holds(inbox, "PING") \/ Holds(inbox, "RESP")
      /\ e = "none" => Plain(inbox) /\ up = <<>> /\ down = <<>>
      /\ down = <<>> \/ (down = <<"PING">> /\ up = <<>>)
      /\ up = <<>> \/ up = <<"RESP">>
  BY <1>4 DEF Live, Shaped
<1>8. /\ down = <<>> => down' = <<"CLOSE">>
      /\ down = <<"PING">> => down' = <<"PING", "CLOSE">>
  BY <1>1, AppendTwo, Singles
<1>9. Undone => e = "none" /\ fails = 0
  BY DEF Live, Given
<1>10. Over'
  BY <1>1, <1>2, <1>4, <1>6, <1>7, <1>8, <1>9 DEF Over
<1> QED
  BY <1>1, <1>2, <1>3, <1>10

\* A response: the first of the two cm_timer_sets...
LEMMA StepAnswered ==
  ASSUME Timing, Typed, Clock, ended = "no", NEW e \in Exchanges, Live(e), Answered
  PROVE  Typed' /\ Clock' /\ ended' = "no" /\ Live("set")' /\ ~Undone'
<1>1. /\ Take("REG") \/ Take("RESP")
      /\ SetTimer("PING") /\ connected' = TRUE /\ setting' = TRUE /\ UNCHANGED tick
      /\ UNCHANGED <<ended, down, up, bconn, quiet, lag, fails, before, missed, restarted>>
      /\ at' = at /\ tim' = tim /\ val' = val
  BY DEF Answered, link, boardv, failures, tick
<1>2. /\ count' \in [Timers -> Nat] /\ count'["PING"] <= Ping /\ count'["TIMEOUT"] <= Timeout
      /\ armed' = armed \cup {"PING"} /\ Clock'
      /\ LeftT' = LeftT /\ (Undone' <=> Undone)
      /\ \/ LeftP' = Ping
         \/ LeftP' = Ping - 1 /\ at = "load" /\ tim = "PING"
         \/ LeftP' = LeftP /\ "PING" \in armed
  BY <1>1, SetPingEffect
<1>3. /\ e \in {"reg", "resp"} /\ ~setting /\ inbox' = Tail(inbox) /\ up = <<>> /\ down = <<>>
      /\ e = "reg" => inbox' = <<>>
      /\ e = "resp" => Head(inbox) = "RESP" /\ Holds(inbox, "RESP")
  BY <1>1, TakeWhich DEF Take, Live, Shaped
<1>4. /\ Plain(inbox')
      /\ Late(inbox') => e = "resp" /\ Late(inbox)
  BY <1>3, TakeOne, Singles
<1>5. /\ e = "reg" => armed' = {"PING"} /\ armed = {}
      /\ e = "resp" => armed' = Timers /\ armed = Timers /\ connected
  BY <1>2, <1>3 DEF Live, Phase, Timers
<1>6. Typed'
  BY <1>1, <1>2, <1>3, <1>5 DEF Typed
<1>7. /\ lag \in Nat /\ lag <= MaxLag /\ quiet \in Nat /\ LeftP \in Int /\ LeftT \in Int
      /\ missed \in 0..Many /\ fails \in 0..Many
  BY Numbers, LeftBounds DEF Typed
<1>8. /\ quiet <= lag
      /\ e = "resp" => Ping - LeftP <= lag
      /\ e = "reg" => (at # "idle" => lag >= 1)
  BY <1>3 DEF Live, Patience, Phase
<1>9. LeftP' \in Int /\ LeftP' <= Ping /\ Ping - LeftP' <= lag
  <2>1. CASE LeftP' = Ping
    BY <1>7, <2>1, Numbers
  <2>2. CASE LeftP' = Ping - 1 /\ at = "load" /\ tim = "PING"
    <3>1. LeftP <= Ping - 1
      BY <2>2, LeftBounds
    <3>2. lag >= 1
      BY <1>3, <1>7, <1>8, <2>2, <3>1, Numbers
    <3> QED
      BY <1>7, <2>2, <3>2, Numbers
  <2>3. CASE LeftP' = LeftP /\ "PING" \in armed
    BY <1>3, <1>5, <1>7, <1>8, <2>3, LeftBounds
  <2> QED
    BY <1>2, <2>1, <2>2, <2>3
<1>10. Shaped("set")'
  BY <1>1, <1>3, <1>4 DEF Shaped
<1>11. Phase("set")'
  BY <1>1, <1>3, <1>5 DEF Phase
<1>12. Patience("set")'
  <2>1. quiet + LeftP' <= Bound(missed) + 0
    <3>1. PICK b \in Nat : b = Bound(missed) /\ b >= Ping + MaxLag
      BY Amounts
    <3> QED
      BY <1>7, <1>8, <1>9, <3>1, Numbers
  <2>2. ~restarted => bconn \/ missed >= 2
    BY <1>3, <1>5 DEF Live, Patience
  <2> QED
    BY <1>1, <1>8, <1>9, <2>1, <2>2 DEF Patience, Bound
<1>13. ~Undone /\ ~Undone'
  BY <1>2, <1>3 DEF Live, Given
<1>14. Given("set")'
  <2>1. "TIMEOUT" \in armed' => e = "resp" /\ "TIMEOUT" \in armed
    BY <1>3, <1>5
  <2>2. e = "resp" /\ "TIMEOUT" \in armed /\ fails <= 2 =>
          (Timeout - LeftT) - (Ping - LeftP') <= Times(fails) + 1 + Slack("set")
    <3> SUFFICES ASSUME e = "resp", "TIMEOUT" \in armed, fails <= 2
                 PROVE  (Timeout - LeftT) - (Ping - LeftP') <= Times(fails) + 1 + Slack("set")
      OBVIOUS
    <3>1. (Timeout - LeftT) - (Ping - LeftP) <= Times(fails) + 1 + Ping
      BY <1>13, Amounts DEF Live, Given, Ahead
    <3>2. PICK x \in Nat : x = Times(fails)
      BY Amounts
    <3>3. Slack("set") = Ping + MaxLag
      BY Amounts
    <3> QED
      BY <1>7, <1>8, <1>9, <3>1, <3>2, <3>3, Numbers
  <2>3. "TIMEOUT" \in armed' /\ fails' <= 2 => Ahead' <= Times(fails)' + 1 + Slack("set")
    BY <1>1, <1>2, <2>1, <2>2 DEF Ahead
  <2>4. Late(inbox') => /\ Timeout - LeftT <= lag
                        /\ fails >= 3
    BY <1>3, <1>4 DEF Live, Given
  <2> QED
    BY <1>1, <1>2, <1>13, <2>3, <2>4 DEF Given
<1> QED
  BY <1>1, <1>2, <1>6, <1>10, <1>11, <1>12, <1>13, <1>14 DEF Live

\* ... and the second, which ends the exchange.
LEMMA StepAnsweredToo ==
  ASSUME Timing, Typed, Clock, ended = "no", NEW e \in Exchanges, Live(e), AnsweredToo
  PROVE  Typed' /\ Clock' /\ ended' = "no" /\ Live("none")' /\ (Undone' => fails' = 0)
<1>1. /\ setting /\ SetTimer("TIMEOUT") /\ setting' = FALSE /\ UNCHANGED tick
      /\ before' = fails /\ fails' = 0
      /\ UNCHANGED <<inbox, connected, ended, down, up, bconn, quiet, lag, missed, restarted>>
      /\ at' = at /\ tim' = tim /\ val' = val
  BY DEF AnsweredToo, link, boardv, tick
<1>2. /\ count' \in [Timers -> Nat] /\ count'["PING"] <= Ping /\ count'["TIMEOUT"] <= Timeout
      /\ armed' = armed \cup {"TIMEOUT"} /\ Clock'
      /\ LeftP' = LeftP
      /\ Undone' => LeftT' = LeftT /\ "TIMEOUT" \in armed
      /\ ~Undone' => LeftT' >= Timeout - 1
      /\ LeftT' = Timeout \/ LeftT' >= LeftT
  BY <1>1, SetTimeoutEffect
<1>3. e = "set"
  BY <1>1 DEF Live, Shaped, Exchanges
<1>4. connected /\ armed' = Timers /\ Plain(inbox) /\ down = <<>> /\ up = <<>>
  BY <1>2, <1>3 DEF Live, Phase, Shaped, Timers
<1>5. Typed'
  <2>1. before' \in 0..Many /\ fails' \in 0..Many
    BY <1>1 DEF Typed, Many
  <2> QED
    BY <1>1, <1>2, <1>4, <2>1 DEF Typed
<1>6. /\ lag \in Nat /\ lag <= MaxLag /\ LeftP \in Int /\ LeftT \in Int /\ LeftP <= Ping
      /\ LeftT <= Timeout /\ fails \in 0..5 /\ 0 \in 0..Many
  BY Numbers, LeftBounds DEF Typed, Many
<1>7. LeftT' \in Int /\ LeftT' <= Timeout
  <2>1. /\ LeftT' = (IF (tim' = "PING" /\ at' # "idle") \/ at' = "load" THEN count'["TIMEOUT"] - 1
                     ELSE IF at' = "store" THEN val' - 1
                     ELSE count'["TIMEOUT"])
    BY DEF LeftT
  <2> QED
    BY <1>1, <1>2, <2>1, Numbers DEF Timers
<1>8. Shaped("none")'
  BY <1>1, <1>4 DEF Shaped
<1>9. Phase("none")'
  BY <1>1, <1>4 DEF Phase
<1>10. Patience("none")'
  BY <1>1, <1>2, <1>3 DEF Live, Patience
<1>11. ~Undone
  BY <1>3 DEF Live, Given
<1>12. Given("none")'
  <2>1. Undone' /\ before' <= 1 => Ahead' <= Times(before' + 1) + 1
    <3> SUFFICES ASSUME Undone', fails <= 1 PROVE Ahead' <= Times(fails + 1) + 1
      BY <1>1
    <3>1. /\ Ahead' = Ahead /\ "TIMEOUT" \in armed
      BY <1>2 DEF Ahead
    <3>2. Ahead <= Times(fails) + 1 + Ping + MaxLag
      <4>1. Ahead <= Times(fails) + 1 + (Ping + MaxLag)
        BY <1>3, <1>6, <1>11, <3>1, Amounts DEF Live, Given
      <4>2. Times(fails) \in Nat
        BY Amounts
      <4> QED
        BY <4>1, <4>2, Numbers
    <3>3. fails \in 0..1 /\ Times(fails) \in Nat /\ Times(fails + 1) = Times(fails) + Ping + MaxLag
      BY <1>6, Amounts
    <3> QED
      BY <3>1, <3>2, <3>3, Numbers
  <2>2. ~Undone' => Ahead' <= Times(0) + 1 + Slack("none")
    BY <1>2, <1>6, <1>7, Amounts, Numbers DEF Ahead
  <2>3. Late(inbox) => /\ Timeout - LeftT' <= lag
                       /\ fails >= 3 /\ Head(inbox) # "RESP"
    <3> SUFFICES ASSUME Late(inbox)
                 PROVE  Timeout - LeftT' <= lag /\ fails >= 3 /\ Head(inbox) # "RESP"
      OBVIOUS
    <3>1. inbox = <<"TIMEOUT">>
      BY <1>4, TakePlain
    <3>2. Timeout - LeftT <= lag /\ fails >= 3
      BY <1>3 DEF Live, Given
    <3>3. Timeout - LeftT' <= lag
      BY <1>2, <1>6, <1>7, <3>2, Numbers
    <3> QED
      BY <3>1, <3>2, <3>3
  <2> QED
    BY <1>1, <2>1, <2>2, <2>3 DEF Given
<1> QED
  BY <1>1, <1>2, <1>5, <1>8, <1>9, <1>10, <1>12 DEF Live

\* A ping that fails, wherever it is lost, takes the host one failure on.
LEMMA OneMoreFails ==
  ASSUME Timing, Typed, Clock, NEW e \in {"ping", "resp"}, Given(e)
  PROVE  /\ More(fails) \in 0..Many
         /\ "TIMEOUT" \in armed /\ More(fails) <= 2 => Ahead <= Times(More(fails)) + 1 + Slack("none")
         /\ Late(inbox) => More(fails) >= 3 \/ before >= 3
         /\ fails >= 3 => More(fails) >= 3
<1>1. fails \in 0..5 /\ More(fails) \in 0..5 /\ (fails <= 4 => More(fails) = fails + 1) /\ More(fails) >= fails
  BY Numbers DEF Typed, Many
<1>2. ~Undone
  BY DEF Given
<1>3. "TIMEOUT" \in armed /\ fails <= 1 => Ahead <= Times(fails) + 1 + Ping
  BY <1>1, <1>2, Amounts DEF Given
<1>4. fails <= 1 => Times(fails + 1) = Times(fails) + Ping + MaxLag
  BY <1>1, Amounts
<1>5. "TIMEOUT" \in armed /\ More(fails) <= 2 => Ahead <= Times(More(fails)) + 1 + Slack("none")
  <2> SUFFICES ASSUME "TIMEOUT" \in armed, More(fails) <= 2
               PROVE  Ahead <= Times(More(fails)) + 1 + Slack("none")
    OBVIOUS
  <2>1. fails <= 1 /\ More(fails) = fails + 1
    BY <1>1
  <2>2. PICK x \in Nat, a \in Int : x = Times(fails) /\ a = Ahead
    BY Amounts, LeftBounds, Numbers DEF Ahead
  <2>3. a <= x + 1 + Ping /\ Times(More(fails)) = x + Ping + MaxLag /\ Slack("none") = 0
    BY <1>3, <1>4, <2>1, <2>2, Amounts
  <2> QED
    BY <2>2, <2>3, Numbers
<1>6. Late(inbox) => fails >= 3 \/ before >= 3
  BY DEF Given
<1> QED
  BY <1>1, <1>5, <1>6 DEF Many

\* A message reaches the board: the registration, or a ping.
LEMMA StepBoard ==
  ASSUME Timing, Typed, Clock, ended = "no", NEW e \in Exchanges, Live(e), Board
  PROVE  /\ Typed' /\ Clock' /\ ended' = "no" /\ ~Undone /\ ~Undone'
         /\ \E f \in Exchanges : Live(f)'
<1>1. /\ down # <<>> /\ down' = Tail(down) /\ quiet' = 0
      /\ UNCHANGED <<timers, tick, inbox, setting, connected, ended, lag, before, restarted>>
      /\ armed' = armed /\ count' = count /\ at' = at /\ tim' = tim /\ val' = val
  BY DEF Board, client, timers, tick
<1>2. Clock' /\ LeftP' = LeftP /\ LeftT' = LeftT /\ (Undone' <=> Undone)
  BY <1>1, NoEffect
<1>3. /\ e = "open" \/ (e = "ping" /\ Plain(inbox))
      /\ e = "open" => down = <<"OPEN">> /\ up = <<>> /\ inbox = <<>>
      /\ e = "ping" => down = <<"PING">> /\ up = <<>>
      /\ ~setting
  BY <1>1 DEF Live, Shaped, Exchanges
<1>4. ~Undone
  BY <1>3 DEF Live, Given
<1>5. down' = <<>> /\ Head(down) = (IF e = "open" THEN "OPEN" ELSE "PING")
  BY <1>1, <1>3, Singles
<1>6. /\ 0 \in 0..FwTimeout+1 /\ lag \in Nat /\ LeftP \in Int /\ LeftP <= Ping /\ 0 \in 0..Many
      /\ \A n \in 0..Many : More(n) \in 0..Many
      /\ missed \in 0..Many /\ fails \in 0..Many
  BY Numbers, LeftBounds DEF Typed, Many
<1>7. CASE e = "open"
  <2>1. bconn' = TRUE /\ up' = <<"REG">> /\ fails' = fails /\ missed' = missed
    BY <1>3, <1>5, <1>7, Singles DEF Board, BoardOpen, BoardClose, BoardPing
  <2>2. Typed'
    BY <1>1, <1>6, <2>1 DEF Typed
  <2>3. Shaped("reg")'
    BY <1>1, <1>3, <1>5, <1>7, <2>1 DEF Shaped
  <2>4. Phase("reg")'
    BY <1>1, <1>7, <2>1 DEF Live, Phase
  <2>5. ~connected /\ armed = {} /\ ~Late(inbox)
    BY <1>3, <1>7, Singles DEF Live, Phase
  <2>6. Patience("reg")'
    BY <1>1, <1>6, <2>1, <2>5 DEF Patience
  <2>7. Given("reg")'
    BY <1>1, <1>2, <1>4, <2>5 DEF Given
  <2> QED
    BY <1>1, <1>2, <1>4, <2>2, <2>3, <2>4, <2>6, <2>7 DEF Live, Exchanges
<1>8. CASE e = "ping" /\ bconn
  <2>1. bconn' = bconn /\ up' = <<"RESP">> /\ fails' = fails /\ missed' = 0
    BY <1>3, <1>5, <1>8, Singles DEF Board, BoardOpen, BoardClose, BoardPing
  <2>2. Typed'
    BY <1>1, <1>6, <2>1 DEF Typed
  <2>3. Shaped("resp")'
    BY <1>1, <1>3, <1>5, <1>8, <2>1 DEF Shaped
  <2>4. Phase("resp")'
    BY <1>1, <1>8, <2>1 DEF Live, Phase
  <2>5. Patience("resp")'
    <3>1. 0 + LeftP <= Bound(0) + 0
      BY <1>6, Amounts, Numbers
    <3>2. Ping - LeftP <= lag
      BY <1>8 DEF Live, Patience
    <3> QED
      BY <1>1, <1>2, <1>6, <1>8, <2>1, <3>1, <3>2 DEF Patience
  <2>6. Given("resp")'
    <3>1. Ahead' = Ahead /\ Slack("resp") = Slack("ping")
      BY <1>2, Amounts DEF Ahead
    <3>2. Late(inbox) => Head(inbox) # "RESP"
      BY <1>3, <1>8, TakePlain
    <3> QED
      BY <1>1, <1>2, <1>4, <1>8, <2>1, <3>1, <3>2 DEF Live, Given
  <2> QED
    BY <1>1, <1>2, <1>4, <2>2, <2>3, <2>4, <2>5, <2>6 DEF Live, Exchanges
<1>9. CASE e = "ping" /\ ~bconn
  <2>1. bconn' = bconn /\ up' = up /\ fails' = More(fails) /\ missed' = missed
    BY <1>3, <1>5, <1>9, Singles DEF Board, BoardOpen, BoardClose, BoardPing
  <2>2. Typed'
    BY <1>1, <1>6, <2>1 DEF Typed
  <2>3. Shaped("none")'
    BY <1>1, <1>3, <1>5, <1>9, <2>1 DEF Shaped
  <2>4. Phase("none")'
    BY <1>1, <1>9, <2>1 DEF Live, Phase
  <2>5. Patience("none")'
    <3>1. \A m : 0 + LeftP <= Bound(m) + 0
      <4> TAKE m
      <4>1. PICK b \in Nat : b = Bound(m) /\ b >= Ping + MaxLag
        BY Amounts
      <4> QED
        BY <1>6, <4>1, Numbers
    <3> QED
      BY <1>1, <1>2, <1>6, <1>9, <2>1, <3>1 DEF Live, Patience
  <2>6. Given("none")'
    <3>1. Ahead' = Ahead
      BY <1>2 DEF Ahead
    <3>2. Late(inbox) => Head(inbox) # "RESP"
      BY <1>3, <1>9, TakePlain
    <3>3. /\ "TIMEOUT" \in armed /\ fails' <= 2 => Ahead <= Times(fails') + 1 + Slack("none")
          /\ Late(inbox) => fails' >= 3 \/ before >= 3
      BY <1>9, <2>1, OneMoreFails DEF Live
    <3>4. Late(inbox) => Timeout - LeftT <= lag
      BY DEF Live, Given
    <3> QED
      BY <1>1, <1>2, <1>4, <3>1, <3>2, <3>3, <3>4 DEF Given
  <2> QED
    BY <1>1, <1>2, <1>4, <2>2, <2>3, <2>4, <2>5, <2>6 DEF Live, Exchanges
<1> QED
  BY <1>3, <1>7, <1>8, <1>9

\* The board gives the host up, which has not registered, or has lost two pings.
LEMMA StepBoardTimesOut ==
  ASSUME Timing, Typed, Clock, ended = "no", NEW e \in Exchanges, Live(e), BoardTimesOut
  PROVE  Typed' /\ Clock' /\ ended' = "no" /\ Live(e)' /\ (Undone' <=> Undone)
<1>1. /\ quiet > FwTimeout
      /\ UNCHANGED <<timers, tick, inbox, setting, connected, ended, down, up, quiet, lag, fails,
                     before, missed, restarted>>
      /\ armed' = armed /\ count' = count /\ at' = at /\ tim' = tim /\ val' = val
      /\ bconn' = FALSE
  BY DEF BoardTimesOut, client, link, failures, timers, tick
<1>2. Clock' /\ LeftP' = LeftP /\ LeftT' = LeftT /\ (Undone' <=> Undone)
  BY <1>1, NoEffect
<1>3. Typed'
  BY <1>1 DEF Typed
<1>4. /\ lag \in Nat /\ lag <= MaxLag /\ quiet \in Nat /\ LeftP \in Int /\ missed \in 0..5
      /\ FwTimeout >= 2 * (Ping + MaxLag)
  BY Numbers, LeftBounds DEF Typed, Many, Timing
<1>5. ~restarted /\ (e = "reg" \/ connected) => missed >= 2
  <2> SUFFICES ASSUME e = "reg" \/ connected, ~(missed >= 2) PROVE FALSE
    OBVIOUS
  <2>1. e # "reg"
    <3>1. e = "reg" => quiet <= lag
      BY DEF Live, Patience
    <3> QED
      BY <1>1, <1>4, <3>1, Numbers
  <2>2. connected /\ missed <= 1
    BY <1>4, <2>1
  <2>3. LeftP >= 0
    BY <2>2, LeftBounds DEF Live, Phase, Exchanges, Timers
  <2>4. PICK b \in Nat : b = Bound(missed) /\ b <= 2 * Ping + MaxLag
    BY Amounts
  <2>5. CASE e = "ping"
    <3>1. quiet + LeftP <= b + Ping /\ Ping - LeftP <= lag
      BY <2>2, <2>4, <2>5 DEF Live, Patience
    <3> QED
      BY <1>1, <1>4, <2>3, <2>4, <3>1, Numbers
  <2>6. CASE e # "ping"
    <3>1. quiet + LeftP <= b + 0
      BY <2>2, <2>4, <2>6 DEF Live, Patience
    <3> QED
      BY <1>1, <1>4, <2>3, <2>4, <3>1, Numbers
  <2> QED
    BY <2>5, <2>6
<1>6. Shaped(e)'
  BY <1>1 DEF Live, Shaped
<1>7. Phase(e)'
  BY <1>1 DEF Live, Phase
<1>8. Patience(e)'
  BY <1>1, <1>2, <1>5 DEF Live, Patience
<1>9. Given(e)'
  <2>1. Ahead' = Ahead
    BY <1>2 DEF Ahead
  <2> QED
    BY <1>1, <1>2, <2>1 DEF Live, Given
<1> QED
  BY <1>1, <1>2, <1>3, <1>6, <1>7, <1>8, <1>9 DEF Live

\* A message is lost: nothing is under way then.
LEMMA StepLose ==
  ASSUME Timing, Typed, Clock, ended = "no", NEW e \in Exchanges, Live(e), Lose
  PROVE  Typed' /\ Clock' /\ ended' = "no" /\ Live("none")' /\ ~Undone'
<1>1. /\ UNCHANGED <<timers, tick, inbox, setting, connected, ended, bconn, quiet, lag, before, restarted>>
      /\ armed' = armed /\ count' = count /\ at' = at /\ tim' = tim /\ val' = val
      /\ down # <<>> \/ up # <<>>
  BY DEF Lose, client, boardv, timers, tick
<1>2. Clock' /\ LeftP' = LeftP /\ LeftT' = LeftT /\ (Undone' <=> Undone)
  BY <1>1, NoEffect
<1>3. /\ e \in {"open", "reg", "ping", "resp"} /\ Plain(inbox) /\ ~setting
      /\ e = "open" => down = <<"OPEN">> /\ up = <<>> /\ inbox = <<>>
      /\ e = "reg" => up = <<"REG">> /\ down = <<>> /\ inbox = <<>>
      /\ e = "ping" => down = <<"PING">> /\ up = <<>>
      /\ e = "resp" => up = <<"RESP">> /\ down = <<>>
  BY <1>1, Singles DEF Live, Shaped, Exchanges
<1>4. ~Undone
  BY <1>3 DEF Live, Given
<1>5. /\ down' = <<>> /\ up' = <<>>
      /\ fails' = IF e \in {"ping", "resp"} THEN More(fails) ELSE fails
      /\ missed' = IF e = "ping" THEN More(missed) ELSE missed
  BY <1>3, Singles DEF Lose
<1>6. Typed'
  <2>1. fails' \in 0..Many /\ missed' \in 0..Many
    BY <1>5, Numbers DEF Typed
  <2> QED
    BY <1>1, <2>1 DEF Typed
<1>7. Shaped("none")'
  BY <1>1, <1>3, <1>5 DEF Shaped
<1>8. Phase("none")'
  BY <1>1, <1>3 DEF Live, Phase
<1>9. Patience("none")'
  <2>1. ~restarted /\ connected => bconn \/ missed' >= 2
    <3>1. missed >= 2 => missed' >= 2
      <4>1. missed \in 0..Many /\ More(missed) \in 0..Many /\ More(missed) >= missed
        BY Numbers DEF Typed
      <4> QED
        BY <1>5, <4>1 DEF Many
    <3> QED
      BY <3>1 DEF Live, Patience
  <2>2. connected /\ missed' <= 1 => quiet + LeftP <= Bound(missed') + 0
    <3>1. CASE e = "ping"
      <4> SUFFICES ASSUME connected, missed' <= 1 PROVE quiet + LeftP <= Bound(missed') + 0
        OBVIOUS
      <4>1. missed = 0 /\ missed' = 1
        <5>1. missed \in 0..5 /\ missed' = More(missed) /\ More(missed) \in 0..5
              /\ (missed <= 4 => More(missed) = missed + 1) /\ More(missed) >= missed
          BY <1>5, <3>1, Numbers DEF Typed, Many
        <5> QED
          BY <5>1
      <4>2. quiet + LeftP <= Bound(0) + Ping
        BY <3>1, <4>1 DEF Live, Patience
      <4>3. Bound(0) = Ping + MaxLag /\ Bound(1) = 2 * Ping + MaxLag
        BY Amounts
      <4>4. quiet \in Nat /\ LeftP \in Int
        BY LeftBounds, Numbers DEF Typed
      <4> QED
        BY <4>1, <4>2, <4>3, <4>4, Numbers
    <3>2. CASE e # "ping"
      BY <1>5, <3>2 DEF Live, Patience
    <3> QED
      BY <3>1, <3>2
  <2> QED
    BY <1>1, <1>2, <2>1, <2>2 DEF Patience
<1>10. Given("none")'
  <2>1. Ahead' = Ahead
    BY <1>2 DEF Ahead
  <2>2. Late(inbox) => Head(inbox) # "RESP" /\ e \in {"ping", "resp"} /\ Timeout - LeftT <= lag
    BY <1>3, TakePlain, Singles DEF Live, Given
  <2>3. e \in {"open", "reg"} => armed = {}
    BY DEF Live, Phase
  <2>4. e \in {"ping", "resp"} =>
          /\ "TIMEOUT" \in armed /\ fails' <= 2 => Ahead <= Times(fails') + 1 + Slack("none")
          /\ Late(inbox) => fails' >= 3 \/ before >= 3
    BY <1>5, OneMoreFails DEF Live
  <2> QED
    BY <1>1, <1>2, <1>3, <1>4, <2>1, <2>2, <2>3, <2>4 DEF Given
<1> QED
  BY <1>1, <1>2, <1>4, <1>6, <1>7, <1>8, <1>9, <1>10 DEF Live

\* The board starts again, and loses what is on its way to it.
LEMMA StepBoardRestarts ==
  ASSUME Timing, Typed, Clock, ended = "no", NEW e \in Exchanges, Live(e), BoardRestarts
  PROVE  /\ Typed' /\ Clock' /\ ended' = "no"
         /\ Undone' => Undone /\ fails' = fails
         /\ \E f \in Exchanges : Live(f)'
<1>1. /\ restarted' = TRUE /\ bconn' = FALSE /\ quiet' = 0 /\ down' = <<>>
      /\ fails' = IF down = <<"PING">> THEN More(fails) ELSE fails
      /\ UNCHANGED <<timers, tick, inbox, setting, connected, ended, up, lag, before, missed>>
      /\ armed' = armed /\ count' = count /\ at' = at /\ tim' = tim /\ val' = val
  BY DEF BoardRestarts, client, timers, tick
<1>2. Clock' /\ LeftP' = LeftP /\ LeftT' = LeftT /\ (Undone' <=> Undone) /\ Ahead' = Ahead
  BY <1>1, NoEffect DEF Ahead
<1>3. Typed'
  <2>1. 0 \in 0..FwTimeout+1 /\ fails' \in 0..Many
    BY <1>1, Numbers DEF Typed
  <2> QED
    BY <1>1, <2>1 DEF Typed
<1>4. Undone => e = "none" /\ down = <<>>
  BY DEF Live, Given, Shaped
<1>5. Undone' => Undone /\ fails' = fails
  BY <1>1, <1>2, <1>4, Singles
<1>6. /\ lag \in Nat /\ LeftP \in Int /\ LeftP <= Ping
      /\ \A m : 0 + LeftP <= Bound(m) + 0 /\ 0 + LeftP <= Bound(m) + Ping
  <2>1. lag \in Nat /\ LeftP \in Int /\ LeftP <= Ping
    BY Numbers, LeftBounds DEF Typed
  <2>2. ASSUME NEW m PROVE 0 + LeftP <= Bound(m) + 0 /\ 0 + LeftP <= Bound(m) + Ping
    <3>1. PICK b \in Nat : b = Bound(m) /\ b >= Ping + MaxLag
      BY Amounts
    <3> QED
      BY <2>1, <3>1, Numbers
  <2> QED
    BY <2>1, <2>2
<1>7. CASE down = <<>>
  <2>1. fails' = fails
    BY <1>1, <1>7, Singles
  <2>2. Shaped(e)'
    BY <1>1, <1>7, Singles DEF Live, Shaped
  <2>3. Phase(e)'
    BY <1>1 DEF Live, Phase
  <2>4. Patience(e)'
    BY <1>1, <1>2, <1>6, Numbers DEF Live, Patience
  <2>5. Given(e)'
    BY <1>1, <1>2, <2>1 DEF Live, Given
  <2> QED
    BY <1>1, <1>2, <1>3, <1>5, <2>2, <2>3, <2>4, <2>5 DEF Live
<1>8. CASE down # <<>>
  <2>1. /\ e \in {"open", "ping"} /\ up = <<>> /\ Plain(inbox) /\ ~setting
        /\ e = "open" => down = <<"OPEN">> /\ inbox = <<>>
        /\ e = "ping" => down = <<"PING">>
    BY <1>8, Singles DEF Live, Shaped, Exchanges
  <2>2. fails' = IF e = "ping" THEN More(fails) ELSE fails
    BY <1>1, <2>1
  <2>3. Shaped("none")'
    BY <1>1, <2>1 DEF Shaped
  <2>4. Phase("none")'
    BY <1>1, <2>1 DEF Live, Phase
  <2>5. Patience("none")'
    BY <1>1, <1>2, <1>6, Numbers DEF Live, Patience
  <2>6. Given("none")'
    <3>1. Late(inbox) => Head(inbox) # "RESP" /\ e = "ping" /\ Timeout - LeftT <= lag
      BY <2>1, TakePlain, Singles DEF Live, Given
    <3>2. e = "open" => armed = {}
      BY DEF Live, Phase
    <3>3. e = "ping" =>
            /\ "TIMEOUT" \in armed /\ fails' <= 2 => Ahead <= Times(fails') + 1 + Slack("none")
            /\ Late(inbox) => fails' >= 3 \/ before >= 3
      BY <2>2, OneMoreFails DEF Live
    <3>4. ~Undone
      BY <1>4, <1>8
    <3> QED
      BY <1>1, <1>2, <2>1, <3>1, <3>2, <3>3, <3>4 DEF Given
  <2> QED
    BY <1>1, <1>2, <1>3, <1>5, <2>3, <2>4, <2>5, <2>6 DEF Live, Exchanges
<1> QED
  BY <1>7, <1>8

-----------------------------------------------------------------------------
(***************************************************************************)
(* The steps after the host has ended.                                     *)
(***************************************************************************)

\* The timer thread finishes its pass; the last timers still expire.
LEMMA OverTick ==
  ASSUME Timing, Typed, Clock, ended # "no", Over, Undone => fails = 0,
         TickLoad \/ TickStore \/ TickTest
  PROVE  Typed' /\ Clock' /\ ended' # "no" /\ Over' /\ ~Undone'
<1>1. UNCHANGED <<setting, connected, ended, down, up, bconn, quiet, lag, before, missed, restarted, armed>>
  BY DEF TickLoad, TickStore, TickTest, TickTestWith, client, link, boardv, failures, timers
<1>2. CASE TickLoad
  <2>1. Typed' /\ Clock' /\ ~Undone' /\ at # "idle"
    BY <1>2, LoadEffect
  <2>2. armed = Timers
    BY <2>1 DEF Over
  <2>3. LeftP' = LeftP /\ LeftT' = LeftT
    BY <1>2, <2>2, LoadEffect DEF Timers
  <2>4. inbox' = inbox /\ fails' = fails
    BY <1>2 DEF TickLoad, client, failures
  <2>5. Over'
    BY <1>1, <2>1, <2>2, <2>3, <2>4 DEF Over
  <2> QED
    BY <1>1, <2>1, <2>5
<1>3. CASE TickStore
  <2>1. /\ Typed' /\ Clock' /\ ~Undone' /\ at # "idle" /\ LeftP' = LeftP /\ LeftT' = LeftT
        /\ fails' = IF Undone THEN More(before) ELSE fails
    BY <1>3, StoreEffect
  <2>2. inbox' = inbox
    BY <1>3 DEF TickStore, client
  <2>3. ended' = "timeout" => fails' >= 3 \/ before' >= 3
    <3>1. ended = "timeout" => fails >= 3 \/ before >= 3
      BY DEF Over
    <3>2. ~(0 >= 3)
      OBVIOUS
    <3> QED
      BY <1>1, <2>1, <3>1, <3>2
  <2>4. Over'
    BY <1>1, <2>1, <2>2, <2>3 DEF Over
  <2> QED
    BY <1>1, <2>1, <2>4
<1>4. CASE TickTest
  <2>1. /\ Typed' /\ Clock' /\ ~Undone /\ ~Undone' /\ tim \in armed /\ at # "idle"
        /\ \/ LeftP' = LeftP /\ LeftT' = LeftT /\ inbox' = inbox
           \/ /\ tim = "PING" /\ LeftP = 0
              /\ LeftP' = Ping /\ LeftT' = LeftT /\ inbox' = Append(inbox, "PING")
           \/ /\ tim = "TIMEOUT" /\ LeftT = 0 /\ LeftP >= 1 /\ at' = "idle"
              /\ LeftP' = LeftP /\ LeftT' = Timeout /\ inbox' = Append(inbox, "TIMEOUT")
    BY <1>4, TestEffect
  <2>2. /\ armed = Timers
        /\ LeftP = 0 => Plain(inbox)
        /\ LeftT = 0 => ~Late(inbox)
        /\ Plain(inbox) \/ Holds(inbox, "PING") \/ Holds(inbox, "RESP")
    BY <2>1 DEF Over
  <2>3. fails' = fails
    BY <1>4 DEF TickTest, TickTestWith, failures
  <2>4. Ping # 0
    BY Numbers
  <2>5. /\ Plain(inbox') \/ Holds(inbox', "PING") \/ Holds(inbox', "RESP")
        /\ at' # "idle" => /\ LeftP' = 0 => Plain(inbox')
                           /\ LeftT' = 0 => ~Late(inbox')
    <3>1. CASE inbox' = inbox /\ LeftP' = LeftP /\ LeftT' = LeftT
      BY <2>2, <3>1
    <3>2. CASE LeftP = 0 /\ LeftP' = Ping /\ LeftT' = LeftT /\ inbox' = Append(inbox, "PING")
      BY <2>2, <2>4, <3>2, AddPing
    <3>3. CASE LeftT = 0 /\ at' = "idle" /\ inbox' = Append(inbox, "TIMEOUT")
      <4>1. /\ Plain(inbox) => inbox' = <<"TIMEOUT">>
            /\ Holds(inbox, "PING") => inbox' = <<"PING", "TIMEOUT">>
            /\ Holds(inbox, "RESP") => inbox' = <<"RESP", "TIMEOUT">>
        BY <2>2, <3>3, AddTimeout
      <4> QED
        BY <2>2, <3>3, <4>1 DEF Plain, Holds
    <3> QED
      BY <2>1, <3>1, <3>2, <3>3
  <2>6. Over'
    BY <1>1, <2>1, <2>2, <2>3, <2>5 DEF Over
  <2> QED
    BY <1>1, <2>1, <2>6
<1> QED
  BY <1>2, <1>3, <1>4

\* A host that has given up stays one whose pings have failed.
LEMMA OverMore ==
  ASSUME Timing, Typed, Over
  PROVE  ended = "timeout" => More(fails) >= 3 \/ before >= 3
<1>1. fails \in 0..Many /\ More(fails) \in 0..Many /\ More(fails) >= fails
  BY Numbers DEF Typed
<1>2. ended = "timeout" => fails >= 3 \/ before >= 3
  BY DEF Over
<1> QED
  BY <1>1, <1>2 DEF Many

\* What is on its way to the board, one message less.
LEMMA OneLess ==
  ASSUME NEW s \in {<<>>, <<"PING">>, <<"CLOSE">>, <<"PING", "CLOSE">>}, s # <<>>
  PROVE  /\ Tail(s) \in {<<>>, <<"CLOSE">>}
         /\ Head(s) \in {"PING", "CLOSE"}
         /\ s \in {<<>>, <<"CLOSE">>} => Head(s) = "CLOSE"
<1>1. CASE s = <<"PING">>
  BY <1>1
<1>2. CASE s = <<"CLOSE">>
  BY <1>2
<1>3. CASE s = <<"PING", "CLOSE">>
  <2>1. Tail(s) = <<"CLOSE">> /\ Head(s) = "PING"
    BY <1>3
  <2>2. s \notin {<<>>, <<"CLOSE">>}
    BY <1>3
  <2> QED
    BY <2>1, <2>2
<1> QED
  BY <1>1, <1>2, <1>3

\* Time goes on for the board, which takes what is on its way to it.
LEMMA OverOther ==
  ASSUME Timing, Typed, Clock, ended # "no", Over, Undone => fails = 0,
         Pass \/ Board \/ BoardTimesOut \/ Lose \/ BoardRestarts
  PROVE  Typed' /\ Clock' /\ ended' # "no" /\ Over' /\ (Undone' => fails' = 0)
<1>1. /\ UNCHANGED <<timers, tick, inbox, setting, connected, ended, before>>
      /\ armed' = armed /\ count' = count /\ at' = at /\ tim' = tim /\ val' = val
  BY DEF Pass, Board, BoardTimesOut, Lose, BoardRestarts, client, failures, timers, tick
<1>2. Clock' /\ LeftP' = LeftP /\ LeftT' = LeftT /\ (Undone' <=> Undone)
  BY <1>1, NoEffect
<1>3. /\ 0 \in 0..Many /\ \A n \in 0..Many : More(n) \in 0..Many
      /\ lag \in 0..MaxLag /\ quiet \in 0..FwTimeout+1 /\ fails \in 0..Many /\ missed \in 0..Many
      /\ 0 \in 0..FwTimeout+1
  BY Numbers DEF Typed, Many
<1>4. /\ down \in {<<>>, <<"PING">>, <<"CLOSE">>, <<"PING", "CLOSE">>}
      /\ up = <<>> \/ (up = <<"RESP">> /\ down \in {<<>>, <<"CLOSE">>})
      /\ Undone => fails = 0 /\ down \in {<<>>, <<"CLOSE">>} /\ up = <<>>
  BY DEF Over
<1>5. ASSUME NEW d, NEW u, down' = d, up' = u, fails' \in {fails, More(fails)},
             d \in {<<>>, <<"PING">>, <<"CLOSE">>, <<"PING", "CLOSE">>},
             u = <<>> \/ (u = <<"RESP">> /\ d \in {<<>>, <<"CLOSE">>}),
             Undone => fails' = fails /\ d \in {<<>>, <<"CLOSE">>} /\ u = <<>>
      PROVE  Over'
  <2>1. ended' = "timeout" => fails' >= 3 \/ before' >= 3
    BY <1>1, <1>5, OverMore DEF Over
  <2> QED
    BY <1>1, <1>2, <1>5, <2>1 DEF Over
<1>6. CASE Pass
  <2>1. /\ lag' \in 0..MaxLag /\ quiet' \in 0..FwTimeout+1
        /\ UNCHANGED <<down, up, bconn, fails, missed, restarted>>
    <3>1. /\ lag' = IF UnderWay THEN lag + 1 ELSE 0
          /\ UnderWay => lag < MaxLag
          /\ quiet' = IF quiet > FwTimeout THEN quiet ELSE quiet + 1
          /\ UNCHANGED <<down, up, bconn, fails, missed, restarted>>
      BY <1>6 DEF Pass, link, failures
    <3> QED
      BY <1>3, <3>1, Numbers
  <2>2. Typed'
    BY <1>1, <2>1 DEF Typed
  <2>3. Over'
    BY <1>4, <1>5, <2>1
  <2> QED
    BY <1>1, <1>2, <1>4, <2>1, <2>2, <2>3
<1>7. CASE BoardTimesOut
  <2>1. bconn' = FALSE /\ UNCHANGED <<down, up, quiet, lag, fails, missed, restarted>>
    BY <1>7 DEF BoardTimesOut, link, failures
  <2>2. Typed'
    BY <1>1, <2>1 DEF Typed
  <2>3. Over'
    BY <1>4, <1>5, <2>1
  <2> QED
    BY <1>1, <1>2, <1>4, <2>1, <2>2, <2>3
<1>8. CASE Board
  <2>1. /\ down # <<>> /\ down' = Tail(down) /\ quiet' = 0 /\ UNCHANGED <<lag, restarted>>
        /\ BoardOpen \/ BoardClose \/ BoardPing
    BY <1>8 DEF Board
  <2>2. /\ down' \in {<<>>, <<"CLOSE">>} /\ Head(down) \in {"PING", "CLOSE"}
        /\ down \in {<<>>, <<"CLOSE">>} => Head(down) = "CLOSE"
    BY <1>4, <2>1, OneLess
  <2>3. CASE Head(down) = "CLOSE"
    <3>1. bconn' = FALSE /\ UNCHANGED <<up, fails, missed>>
      BY <2>1, <2>3 DEF BoardOpen, BoardClose, BoardPing
    <3>2. Typed'
      BY <1>1, <1>3, <2>1, <3>1 DEF Typed
    <3>3. Over'
      BY <1>4, <1>5, <2>2, <3>1
    <3> QED
      BY <1>1, <1>2, <1>4, <3>1, <3>2, <3>3
  <2>4. CASE Head(down) = "PING"
    <3>1. /\ bconn' = bconn /\ fails' \in {fails, More(fails)} /\ missed' \in {0, missed}
          /\ up' \in {up, Append(up, "RESP")}
      BY <2>1, <2>4 DEF BoardOpen, BoardClose, BoardPing
    <3>2. ~Undone /\ up = <<>>
      BY <1>4, <2>2, <2>4
    <3>3. up' = <<>> \/ up' = <<"RESP">>
      BY <3>1, <3>2, Singles
    <3>4. Typed'
      BY <1>1, <1>3, <2>1, <3>1 DEF Typed
    <3>5. Over'
      BY <1>5, <2>2, <3>1, <3>2, <3>3
    <3> QED
      BY <1>1, <1>2, <3>2, <3>4, <3>5
  <2> QED
    BY <2>2, <2>3, <2>4
<1>9. CASE Lose
  <2>1. UNCHANGED <<bconn, quiet, lag, restarted>>
    BY <1>9 DEF Lose, boardv
  <2>2. CASE /\ down # <<>> /\ down' = Tail(down) /\ UNCHANGED up
             /\ IF Head(down) = "PING" THEN fails' = More(fails) /\ missed' = More(missed)
                                       ELSE UNCHANGED <<fails, missed>>
    <3>1. /\ down' \in {<<>>, <<"CLOSE">>} /\ Head(down) \in {"PING", "CLOSE"}
          /\ down \in {<<>>, <<"CLOSE">>} => Head(down) = "CLOSE"
      BY <1>4, <2>2, OneLess
    <3>2. /\ fails' \in {fails, More(fails)} /\ missed' \in {missed, More(missed)}
          /\ Undone => fails' = fails
      BY <1>4, <2>2, <3>1
    <3>3. Typed'
      BY <1>1, <1>3, <2>1, <3>2 DEF Typed
    <3>4. Over'
      BY <1>4, <1>5, <2>2, <3>1, <3>2
    <3> QED
      BY <1>1, <1>2, <1>4, <3>2, <3>3, <3>4
  <2>3. CASE /\ up # <<>> /\ up' = Tail(up) /\ UNCHANGED <<down, missed>>
             /\ fails' = IF Head(up) = "RESP" THEN More(fails) ELSE fails
    <3>1. /\ up' = <<>> /\ ~Undone /\ fails' \in {fails, More(fails)}
      BY <1>4, <2>3, Singles
    <3>2. Typed'
      BY <1>1, <1>3, <2>1, <2>3, <3>1 DEF Typed
    <3>3. Over'
      BY <1>4, <1>5, <2>3, <3>1
    <3> QED
      BY <1>1, <1>2, <3>1, <3>2, <3>3
  <2> QED
    BY <1>9, <2>2, <2>3 DEF Lose
<1>10. CASE BoardRestarts
  <2>1. /\ restarted' = TRUE /\ bconn' = FALSE /\ quiet' = 0 /\ down' = <<>>
        /\ fails' = IF down = <<"PING">> THEN More(fails) ELSE fails
        /\ UNCHANGED <<up, lag, missed>>
    BY <1>10 DEF BoardRestarts
  <2>2. /\ fails' \in {fails, More(fails)} /\ (Undone => fails' = fails)
    BY <1>4, <2>1, Singles
  <2>3. Typed'
    BY <1>1, <1>3, <2>1, <2>2 DEF Typed
  <2>4. Over'
    BY <1>4, <1>5, <2>1, <2>2
  <2> QED
    BY <1>1, <1>2, <1>4, <2>2, <2>3, <2>4
<1> QED
  BY <1>6, <1>7, <1>8, <1>9, <1>10

-----------------------------------------------------------------------------
(***************************************************************************)
(* The invariant.                                                          *)
(***************************************************************************)

\* The registration is on its way.
LEMMA InitIInv == Init => IInv
<1> SUFFICES ASSUME Init PROVE IInv
  OBVIOUS
<1>1. /\ Ping \in Nat /\ Timeout \in Nat /\ FwTimeout \in Nat /\ MaxLag \in Nat
  BY PeriodAssumption, BoardAssumption, MaxLagAssumption
<1>2. /\ count \in [Timers -> Nat] /\ count["PING"] = 0 /\ count["TIMEOUT"] = 0
      /\ "PING" \in Timers
  BY DEF Init, Timers
<1>3. 0 \in 0..Timeout /\ 0 \in 0..FwTimeout+1 /\ 0 \in 0..MaxLag /\ 0 \in 0..Many
  BY <1>1 DEF Many
<1>4. Typed
  <2>1. count["PING"] <= Ping /\ count["TIMEOUT"] <= Timeout
    BY <1>1, <1>2
  <2>2. fails \in 0..Many /\ before \in 0..Many /\ missed \in 0..Many /\ val \in 0..Timeout
        /\ quiet \in 0..FwTimeout+1 /\ lag \in 0..MaxLag
    BY <1>3 DEF Init
  <2>3. /\ armed = {} /\ at = "idle" /\ tim = "PING" /\ ended = "no"
        /\ setting = FALSE /\ connected = FALSE /\ bconn = FALSE /\ restarted = FALSE
    BY DEF Init
  <2> QED
    BY <1>2, <2>1, <2>2, <2>3 DEF Typed
<1>5. Clock
  BY <1>2 DEF Init, Clock, Timers
<1>6. ~Undone
  BY DEF Init, Undone
<1>7. Live("open")
  <2>1. Shaped("open")
    BY DEF Init, Shaped
  <2>2. Phase("open")
    BY DEF Init, Phase
  <2>3. Patience("open")
    BY DEF Init, Patience
  <2>4. Given("open")
    BY <1>6, Singles DEF Init, Given
  <2> QED
    BY <2>1, <2>2, <2>3, <2>4 DEF Live
<1> QED
  BY <1>4, <1>5, <1>6, <1>7 DEF Init, IInv, Exchanges

\* Every step of the host, the board and the line keeps it.
LEMMA StepKeepsIInv == Timing /\ IInv /\ [Next]_vars => IInv'
<1> SUFFICES ASSUME Timing, IInv, [Next]_vars PROVE IInv'
  OBVIOUS
<1>0. Typed /\ Clock /\ (Undone => fails = 0)
  BY DEF IInv
<1>1. CASE UNCHANGED vars
  <2>1. /\ UNCHANGED <<timers, tick>>
        /\ UNCHANGED <<armed, count, at, tim, val, inbox, setting, down, up, connected, ended, bconn,
                       quiet, lag, fails, before, missed, restarted>>
    BY <1>1 DEF vars, timers, tick, client, link, boardv, failures
  <2>2. Clock' /\ LeftP' = LeftP /\ LeftT' = LeftT /\ (Undone' <=> Undone) /\ Ahead' = Ahead
    BY <1>0, <2>1, NoEffect DEF Ahead
  <2>3. Typed'
    BY <1>0, <2>1 DEF Typed
  <2>4. ASSUME NEW e \in Exchanges, Live(e) PROVE Live(e)'
    <3>1. Shaped(e)'
      BY <2>1, <2>4 DEF Live, Shaped
    <3>2. Phase(e)'
      BY <2>1, <2>4 DEF Live, Phase
    <3>3. Patience(e)'
      BY <2>1, <2>2, <2>4 DEF Live, Patience
    <3>4. Given(e)'
      BY <2>1, <2>2, <2>4 DEF Live, Given
    <3> QED
      BY <3>1, <3>2, <3>3, <3>4 DEF Live
  <2>5. Over => Over'
    BY <2>1, <2>2 DEF Over
  <2> QED
    BY <1>0, <2>1, <2>2, <2>3, <2>4, <2>5 DEF IInv
<1>2. CASE Next /\ ended = "no"
  <2>0. PICK e \in Exchanges : Live(e)
    BY <1>2 DEF IInv
  <2>1. CASE Pass
    BY <1>0, <1>2, <2>0, <2>1, StepPass DEF IInv
  <2>2. CASE TickLoad
    BY <1>0, <1>2, <2>0, <2>2, StepLoad DEF IInv
  <2>3. CASE TickStore
    BY <1>0, <1>2, <2>0, <2>3, StepStore DEF IInv
  <2>4. CASE TickTest
    BY <1>0, <1>2, <2>0, <2>4, StepTest DEF IInv
  <2>5. CASE Receive
    <3>1. fails' = fails
      BY <2>5 DEF Receive, failures
    <3> QED
      BY <1>0, <1>2, <2>0, <2>5, <3>1, StepReceive DEF IInv
  <2>6. CASE PingTimer
    <3>1. fails' = fails
      BY <2>6 DEF PingTimer, failures
    <3> QED
      BY <1>0, <1>2, <2>0, <2>6, <3>1, StepPingTimer DEF IInv
  <2>7. CASE PingTimeout
    <3>1. fails' = fails
      BY <2>7 DEF PingTimeout, failures
    <3> QED
      BY <1>0, <1>2, <2>0, <2>7, <3>1, StepPingTimeout DEF IInv
  <2>8. CASE Answered
    BY <1>0, <1>2, <2>0, <2>8, StepAnswered DEF IInv, Exchanges
  <2>9. CASE AnsweredToo
    BY <1>0, <1>2, <2>0, <2>9, StepAnsweredToo DEF IInv, Exchanges
  <2>10. CASE Close
    <3>1. fails' = fails
      BY <2>10 DEF Close, failures
    <3> QED
      BY <1>0, <1>2, <2>0, <2>10, <3>1, StepClose DEF IInv
  <2>11. CASE Board
    BY <1>0, <1>2, <2>0, <2>11, StepBoard DEF IInv
  <2>12. CASE BoardTimesOut
    <3>1. fails' = fails
      BY <2>12 DEF BoardTimesOut, failures
    <3> QED
      BY <1>0, <1>2, <2>0, <2>12, <3>1, StepBoardTimesOut DEF IInv
  <2>13. CASE Lose
    BY <1>0, <1>2, <2>0, <2>13, StepLose DEF IInv, Exchanges
  <2>14. CASE BoardRestarts
    BY <1>0, <1>2, <2>0, <2>14, StepBoardRestarts DEF IInv
  <2> QED
    BY <1>2, <2>1, <2>2, <2>3, <2>4, <2>5, <2>6, <2>7, <2>8, <2>9, <2>10, <2>11, <2>12, <2>13, <2>14
       DEF Next, Tick, Host
<1>3. CASE Next /\ ended # "no"
  <2>0. Over
    BY <1>3 DEF IInv
  <2>1. ~Receive /\ ~PingTimer /\ ~PingTimeout /\ ~Answered /\ ~AnsweredToo /\ ~Close
    BY <1>3 DEF Receive, PingTimer, PingTimeout, Answered, AnsweredToo, Close, Take
  <2>2. CASE TickLoad \/ TickStore \/ TickTest
    BY <1>0, <1>3, <2>0, <2>2, OverTick DEF IInv
  <2>3. CASE Pass \/ Board \/ BoardTimesOut \/ Lose \/ BoardRestarts
    BY <1>0, <1>3, <2>0, <2>3, OverOther DEF IInv
  <2> QED
    BY <1>3, <2>1, <2>2, <2>3 DEF Next, Tick, Host
<1> QED
  BY <1>1, <1>2, <1>3

\* The invariant holds in every state.
LEMMA SpecIInv == Timing => (Spec => []IInv)
<1>1. CASE Timing
  <2>1. IInv /\ [Next]_vars => IInv'
    BY <1>1, StepKeepsIInv
  <2> QED
    BY <2>1, InitIInv, PTL DEF Spec
<1> QED
  BY <1>1

-----------------------------------------------------------------------------
\* The queue of the clients has one of these shapes, and so two messages at most.
LEMMA InboxShapes ==
  ASSUME NEW s, Plain(s) \/ Holds(s, "PING") \/ Holds(s, "RESP") \/ s = <<"REG">>
  PROVE  Len(s) <= 2 /\ \A k \in DOMAIN s : s[k] \in Timers \cup {"REG", "RESP"}
<1>1. CASE s = <<>>
  BY <1>1
<1>2. ASSUME NEW x \in Timers \cup {"REG", "RESP"}, s = <<x>>
      PROVE  Len(s) <= 2 /\ \A k \in DOMAIN s : s[k] \in Timers \cup {"REG", "RESP"}
  <2>1. Len(s) = 1 /\ DOMAIN s = 1..1 /\ s[1] = x
    BY <1>2
  <2> QED
    BY <2>1
<1>3. ASSUME NEW x \in Timers \cup {"REG", "RESP"}, NEW y \in Timers \cup {"REG", "RESP"}, s = <<x, y>>
      PROVE  Len(s) <= 2 /\ \A k \in DOMAIN s : s[k] \in Timers \cup {"REG", "RESP"}
  <2>1. Len(s) = 2 /\ DOMAIN s = 1..2 /\ s[1] = x /\ s[2] = y
    BY <1>3
  <2> QED
    BY <2>1
<1> QED
  BY <1>1, <1>2, <1>3 DEF Plain, Holds, Timers

\* The board's configuration does not change.
LEMMA FeatureKept == Spec => [](feature \in BOOLEAN)
<1>1. ASSUME [Next]_vars PROVE feature' = feature
  BY <1>1 DEF Next, Tick, Host, Pass, TickLoad, TickStore, TickTest, TickTestWith, Receive,
     PingTimer, PingTimeout, Answered, AnsweredToo, Close, Board, BoardTimesOut, Lose, BoardRestarts,
     vars, boardv
<1>2. Init => feature \in BOOLEAN
  BY DEF Init
<1>3. feature \in BOOLEAN /\ [Next]_vars => (feature \in BOOLEAN)'
  BY <1>1
<1> QED
  BY <1>2, <1>3, PTL DEF Spec

\* Types, and that no queue grows: the counts stay in their periods, whatever the
\* timer thread undoes, and an exchange is over before the next begins.
THEOREM TypeCorrect == Timing => (Spec => []TypeOK)
<1>1. ASSUME Timing, IInv, feature \in BOOLEAN PROVE TypeOK
  <2>0. Typed
    BY <1>1 DEF IInv
  <2>1. /\ Plain(inbox) \/ Holds(inbox, "PING") \/ Holds(inbox, "RESP") \/ inbox = <<"REG">>
        /\ down \in {<<>>, <<"OPEN">>, <<"PING">>, <<"CLOSE">>, <<"PING", "CLOSE">>}
        /\ up \in {<<>>, <<"REG">>, <<"RESP">>}
    <3>1. ASSUME NEW e \in Exchanges, Live(e)
          PROVE  /\ Plain(inbox) \/ Holds(inbox, "PING") \/ Holds(inbox, "RESP") \/ inbox = <<"REG">>
                 /\ down \in {<<>>, <<"OPEN">>, <<"PING">>, <<"CLOSE">>, <<"PING", "CLOSE">>}
                 /\ up \in {<<>>, <<"REG">>, <<"RESP">>}
      BY <3>1, Singles DEF Live, Shaped, Exchanges
    <3> QED
      BY <1>1, <3>1 DEF IInv, Over
  <2>2. Len(inbox) <= 2 /\ \A k \in DOMAIN inbox : inbox[k] \in Timers \cup {"REG", "RESP"}
    BY <2>1, InboxShapes
  <2>3. Len(down) <= 2 /\ Len(up) <= 2
    <3>1. \A s \in {<<>>, <<"OPEN">>, <<"PING">>, <<"CLOSE">>, <<"REG">>, <<"RESP">>} : Len(s) <= 2
      OBVIOUS
    <3>2. Len(<<"PING", "CLOSE">>) <= 2
      OBVIOUS
    <3> QED
      BY <2>1, <3>1, <3>2
  <2>4. \A t \in Timers : count[t] \in 0..Reload[t]
    BY <1>1, <2>0, Numbers DEF Timers
  <2>5. armed \subseteq Timers
    BY <2>0 DEF Typed, Timers
  <2>6. {fails, before, missed} \subseteq 0..Many /\ {setting, connected, bconn, feature, restarted} \subseteq BOOLEAN
    BY <1>1, <2>0 DEF Typed
  <2> QED
    BY <2>0, <2>2, <2>3, <2>4, <2>5, <2>6 DEF TypeOK, Typed
<1>2. CASE Timing
  <2>1. IInv /\ feature \in BOOLEAN => TypeOK
    BY <1>1, <1>2
  <2> QED
    BY <1>2, <2>1, SpecIInv, FeatureKept, PTL
<1> QED
  BY <1>2

\* A host that is there and answers is not given up: the board waits for longer
\* than two pings take, as long as the periods are in the code's ratios.
THEOREM BoardWaits == Timing => (Spec => []PatientBoard)
<1>1. ASSUME IInv PROVE PatientBoard
  BY <1>1 DEF IInv, Live, Patience, PatientBoard
<1>2. IInv => PatientBoard
  BY <1>1
<1>3. CASE Timing
  BY <1>2, <1>3, SpecIInv, PTL
<1> QED
  BY <1>3

\* The host gives up no board that answers: three exchanges in a row have failed
\* before its timeout expires, whatever the interleaving of the timer thread and
\* cm_timer_set and however late the last response.
THEOREM HostWaits == Timing => (Spec => []PatientHost)
<1>1. ASSUME Timing, IInv PROVE PatientHost
  <2>1. (Timeout \div Ping) - 1 = 3
    <3>1. Ping \in Nat /\ Ping > 0 /\ Timeout = 4 * Ping
      BY <1>1, Numbers DEF IInv, Timing
    <3>2. (4 * Ping) \div Ping = 4
      BY <3>1
    <3> QED
      BY <3>1, <3>2
  <2> QED
    BY <1>1, <2>1 DEF IInv, Over, PatientHost
<1>2. CASE Timing
  <2>1. IInv => PatientHost
    BY <1>1, <1>2
  <2> QED
    BY <1>2, <2>1, SpecIInv, PTL
<1> QED
  BY <1>2
=============================================================================
