------------------------------ MODULE DaqView ------------------------------
(***************************************************************************)
(* An acquisition seen from the Windows host (win/jack): optoapi/opto.cpp,  *)
(* cmapi/cmapi.cpp and app/DAQView.cpp.                                     *)
(*                                                                         *)
(* Four threads share it.  The driver's thread puts packets in a ring and  *)
(* hands every block of them on by its address; the CM thread delivers     *)
(* control messages; the view's own thread takes both from one queue and   *)
(* writes a block to the file packet by packet; the GUI's thread starts    *)
(* and stops runs, and opens and closes the file.                          *)
(*                                                                         *)
(* None of this waits for the others: the code relies on time, that is on  *)
(* a disk fast enough and a user slow enough.  Nothing here assumes that;  *)
(* "excuse" is a history of the ways in which a run has broken it, and the *)
(* properties say what holds while there is no such excuse.                *)
(***************************************************************************)
EXTENDS Naturals, Sequences

CONSTANTS Cnt,     \* OPTO_PACKET_CNT: packets in a block
          Blks,    \* blocks in the ring: OPTO_POOL_SLOTS / OPTO_PACKET_CNT
          Que,     \* APP_RX_QUE
          Packets, \* bound: the packets a run may be started for
          Runs,    \* bound: runs
          Wire     \* bound: frames under way

ASSUME CntAssumption     == Cnt \in Nat \ {0}
ASSUME BlksAssumption    == Blks \in Nat \ {0}
ASSUME QueAssumption     == Que \in Nat /\ Que >= 2
ASSUME PacketsAssumption == Packets \subseteq Nat
ASSUME BoundsAssumption  == Runs \in Nat /\ Wire \in Nat \ {0}

PoolSlots == Cnt * Blks

\* A packet is its run and its number there, from 1; Torn is part of a packet.
\* A run request is its run and how many packets it asks for, 0 to stop.
Numbered(r, n) == [run |-> r, n |-> n]
Torn == Numbered(0, 0)
\* DAQ_DONE_IND on the wire, and in the view's queue, which holds the places of
\* blocks in the ring
DoneInd(r) == Numbered(r, 0)
Done == PoolSlots

VARIABLES req,        \* run requests under way to the board
          todo,       \* what the board has still to send
          wire,       \* frames under way to the host
          ring,       \* m_pool
          head, blk,  \* m_head, which is where m_nxt_pipe is, and m_blk_pipe
          pktcnt,     \* m_pktcnt
          inframe,    \* whether the driver is between a SOF and its EOF
          cmq,        \* indications in the CM queue
          piped,      \* whether the view is registered for pipe messages
          rxq,        \* m_rxq of the view
          cur, i,     \* the block the view's thread is writing, the next packet
          writing,    \* whether it is in OnPipeMsgRun
          gui,        \* where the GUI's thread is
          timer,      \* ID_TIMER_DONE_IND is set
          running,    \* m_bRunning
          open, file, \* m_pFile
          run,        \* history: the number of the run,
          asked,      \* what it was started for,
          made, handled, \* its blocks in the ring, and those the view is done with,
          ended,      \* how it ended, and
          excuse      \* which excuses it has.  "late": the driver is a ring ahead of
                      \* the view's thread, or fills its queue; "missed": a block came
                      \* before the GUI's thread had set m_bRunning; "noslot": the
                      \* indication, or the stop it asks for, found no CM slot.

board  == <<req, todo>>
driver == <<ring, head, blk, pktcnt, inframe>>
view   == <<cur, i, writing>>
user   == <<gui, running, open, run, asked, ended>>
counts == <<made, handled>>
vars   == <<board, wire, driver, cmq, piped, rxq, view, user, timer, file, counts, excuse>>

\* opto_thread, before its loop; the constructor of the view
Init ==
  /\ req = <<>> /\ todo = <<>> /\ wire = <<>>
  /\ ring = [k \in 0..PoolSlots-1 |-> Torn]
  /\ head = 0 /\ blk = 0 /\ pktcnt = 0 /\ inframe = FALSE
  /\ cmq = <<>> /\ piped = FALSE /\ rxq = <<>>
  /\ cur = 0 /\ i = 0 /\ writing = FALSE
  /\ gui = "idle" /\ timer = FALSE /\ running = FALSE /\ open = FALSE /\ file = <<>>
  /\ run = 0 /\ asked = 0 /\ made = 0 /\ handled = 0 /\ ended = "no" /\ excuse = {}

\* daq_qmsg: if (++head == slots) head = 0, without a test for head = tail
Put(q, e) == IF Len(q) + 1 = Que THEN <<>> ELSE Append(q, e)

-----------------------------------------------------------------------------
\* The board: a request starts or stops a run; its packets go out in order, and
\* DAQ_DONE_IND after the last of them, on the same line.
BoardRequest ==
  /\ req # <<>>
  /\ req' = Tail(req)
  /\ LET r == Head(req)
     IN  IF r.n = 0
         THEN todo' = <<>> \/ (Len(todo) = 1 /\ UNCHANGED todo)
         ELSE todo' = [k \in 1..r.n + 1 |-> Numbered(r.run, IF k > r.n THEN 0 ELSE k)]
  /\ UNCHANGED <<wire, driver, cmq, piped, rxq, view, user, timer, file, counts, excuse>>

BoardSends ==
  /\ todo # <<>> /\ Len(wire) < Wire
  /\ wire' = Append(wire, Head(todo)) /\ todo' = Tail(todo)
  /\ UNCHANGED <<req, driver, cmq, piped, rxq, view, user, timer, file, counts, excuse>>

-----------------------------------------------------------------------------
\* if (++m_head == OPTO_POOL_SLOTS) m_head = 0
NextHead == IF head + 1 = PoolSlots THEN 0 ELSE head + 1

\* opto_thread stores the bytes of a packet where m_nxt_pipe points, from the
\* first one on.
FrameStarts ==
  /\ wire # <<>> /\ ~inframe /\ Head(wire).n # 0
  /\ inframe' = TRUE
  /\ ring' = [ring EXCEPT ![head] = Torn]
  /\ excuse' = excuse \cup (IF (writing \/ rxq # <<>>) /\ made - handled >= Blks
                            THEN {"late"} ELSE {})
  /\ UNCHANGED <<board, wire, head, blk, pktcnt, cmq, piped, rxq, view, user, timer, file, counts>>

\* Its EOF: the next place, and with the last packet of a block cm_pipe_send
\* (registered with a mark of 1), which calls daq_qmsg in the driver's thread.
FrameEnds ==
  /\ inframe /\ inframe' = FALSE
  /\ wire' = Tail(wire)
  /\ ring' = [ring EXCEPT ![head] = Head(wire)]
  /\ head' = NextHead
  /\ IF pktcnt + 1 = Cnt
     THEN /\ pktcnt' = 0 /\ blk' = NextHead /\ made' = made + 1
          /\ IF piped
             THEN /\ rxq' = Put(rxq, blk)
                  /\ excuse' = excuse \cup (IF Len(rxq) + 1 = Que THEN {"late"} ELSE {})
             ELSE UNCHANGED <<rxq, excuse>>
     ELSE pktcnt' = pktcnt + 1 /\ UNCHANGED <<blk, made, rxq, excuse>>
  /\ UNCHANGED <<board, cmq, piped, view, user, timer, file, handled>>

\* A control message goes into the CM queue, or is dropped when cm_alloc has no
\* slot for it: the pool is shared by all views, so that is left open...
RxControl ==
  /\ wire # <<>> /\ ~inframe /\ Head(wire).n = 0
  /\ wire' = Tail(wire)
  /\ \/ cmq' = Append(cmq, Done) /\ UNCHANGED excuse
     \/ excuse' = excuse \cup {"noslot"} /\ UNCHANGED cmq
  /\ UNCHANGED <<board, driver, piped, rxq, view, user, timer, file, counts>>

\* Slip: the CM thread tells the GUI's thread at once.
CmThreadDirect ==
  /\ cmq # <<>> /\ cmq' = Tail(cmq)
  /\ timer' = TRUE
  /\ UNCHANGED <<board, wire, driver, piped, rxq, view, user, file, counts, excuse>>

\* ... from which cm_thread brings it to its subscriber's queue.
CmThread ==
  /\ cmq # <<>> /\ cmq' = Tail(cmq)
  /\ rxq' = Put(rxq, Done)
  /\ excuse' = excuse \cup (IF Len(rxq) + 1 = Que THEN {"late"} ELSE {})
  /\ UNCHANGED <<board, wire, driver, piped, view, user, timer, file, counts>>

-----------------------------------------------------------------------------
\* daq_thread and daq_msg: a block goes to OnPipeMsgRun, which leaves at once
\* when no run is on; DAQ_DONE_IND sets a timer of the window.
TakeBlock ==
  /\ ~writing /\ rxq # <<>> /\ Head(rxq) # Done
  /\ rxq' = Tail(rxq)
  /\ IF running
     THEN /\ writing' = TRUE /\ cur' = Head(rxq) /\ i' = 0
          /\ UNCHANGED <<handled, excuse>>
     ELSE /\ handled' = handled + 1
          /\ excuse' = excuse \cup (IF gui = "starting" THEN {"missed"} ELSE {})
          /\ UNCHANGED view
  /\ UNCHANGED <<board, wire, driver, cmq, piped, user, timer, file, made>>

\* Slip: DAQ_DONE_IND is handled as the other messages are.
TakeDoneOnlyFrees ==
  /\ ~writing /\ rxq # <<>> /\ Head(rxq) = Done
  /\ rxq' = Tail(rxq)
  /\ UNCHANGED <<board, wire, driver, cmq, piped, view, user, timer, file, counts, excuse>>

TakeDone ==
  /\ ~writing /\ rxq # <<>> /\ Head(rxq) = Done
  /\ rxq' = Tail(rxq)
  /\ timer' = TRUE
  /\ UNCHANGED <<board, wire, driver, cmq, piped, view, user, file, counts, excuse>>

\* OnPipeMsgRun: one packet of the block to the file; it does not look at
\* m_bRunning or at the file again.
WritePacket ==
  /\ writing
  /\ file' = IF open THEN Append(file, ring[cur + i]) ELSE file
  /\ IF i + 1 = Cnt
     THEN writing' = FALSE /\ cur' = 0 /\ i' = 0 /\ handled' = handled + 1
     ELSE i' = i + 1 /\ UNCHANGED <<writing, cur, handled>>
  /\ UNCHANGED <<board, wire, driver, cmq, piped, rxq, user, timer, made, excuse>>

-----------------------------------------------------------------------------
\* Bound: the user starts a run when nothing of the one before is under way.
\* Nothing in the code waits for that.
Quiet == /\ req = <<>> /\ todo = <<>> /\ wire = <<>> /\ cmq = <<>> /\ rxq = <<>>
         /\ ~inframe /\ ~writing /\ ~timer

\* What OnBnClickedDAQStart does when no run is on, with what it leaves in
\* m_pktcnt left open.
StartWith(p, count) ==
  /\ gui = "idle" /\ ~running /\ run < Runs /\ Quiet
  /\ head' = 0 /\ blk' = 0 /\ pktcnt' = count
  /\ gui' = "starting" /\ open' = TRUE /\ file' = <<>> /\ piped' = TRUE
  /\ req' = Append(req, Numbered(run + 1, p))
  /\ run' = run + 1 /\ asked' = p /\ made' = 0 /\ handled' = 0 /\ ended' = "no"
  /\ excuse' = {}
  /\ UNCHANGED <<todo, wire, ring, inframe, cmq, rxq, view, timer, running>>

\* Slip: opto_head leaves m_pktcnt alone.
StartKeepsCount(p) == StartWith(p, pktcnt)

\* opto_head, the file, cm_pipe_reg and the request...  Without a slot for the
\* request nothing happens at all, as if the user had not clicked.
Start(p) == StartWith(p, 0)

\* ... and only then m_bRunning.
Started ==
  /\ gui = "starting" /\ gui' = "idle"
  /\ running' = TRUE
  /\ UNCHANGED <<board, wire, driver, cmq, piped, rxq, view, open, run, asked, ended,
                 timer, file, counts, excuse>>

\* The same with a file that does not open: the ring is reset, and that is all.
\* The message's slot is not given back, so that the pool may really run dry.
StartFails ==
  /\ gui = "idle" /\ ~running
  /\ head' = 0 /\ blk' = 0 /\ pktcnt' = 0
  /\ UNCHANGED <<board, wire, ring, inframe, cmq, piped, rxq, view, user, timer, file, counts, excuse>>

\* OnBnClickedDAQStart, a run on: m_bRunning, the request and cm_pipe_reg...
Stop(how) ==
  /\ gui = "idle" /\ running
  /\ running' = FALSE /\ gui' = "stopping" /\ ended' = how
  /\ req' = Append(req, Numbered(run, 0)) /\ piped' = FALSE
  /\ UNCHANGED <<todo, wire, driver, cmq, rxq, view, open, run, asked, file, counts, excuse>>

\* if (slot == NULL) return; the run stays on.  A user may click again.
StopFails(how) ==
  /\ gui = "idle" /\ running
  /\ excuse' = excuse \cup (IF how = "done" THEN {"noslot"} ELSE {})
  /\ UNCHANGED <<board, wire, driver, cmq, piped, rxq, view, user, file, counts>>

\* ... and then the file.
Stopped ==
  /\ gui = "stopping" /\ gui' = "idle"
  /\ open' = FALSE
  /\ UNCHANGED <<board, wire, driver, cmq, piped, rxq, view, running, run, asked, ended,
                 timer, file, counts, excuse>>

\* OnTimer, which does as a click on Stop would, and only once
OnTimer ==
  /\ timer /\ gui = "idle"
  /\ timer' = FALSE
  /\ IF running THEN Stop("done") \/ StopFails("done")
     ELSE UNCHANGED <<board, wire, driver, cmq, piped, rxq, view, user, file, counts, excuse>>

\* A click; the view's closing stops a run as well.
Click ==
  \/ \E p \in Packets : Start(p)
  \/ StartFails
  \/ (Stop("user") \/ StopFails("user")) /\ UNCHANGED timer

Board  == BoardRequest \/ BoardSends
Driver == FrameStarts \/ FrameEnds \/ RxControl
View   == TakeBlock \/ TakeDone \/ WritePacket
Gui    == Started \/ Stopped \/ OnTimer

Next == Board \/ Driver \/ CmThread \/ View \/ Gui \/ Click

\* Every thread goes on, and so does the board; nobody need click.
Fairness == WF_vars(Board) /\ WF_vars(Driver) /\ WF_vars(CmThread) /\ WF_vars(View) /\ WF_vars(Gui)

Spec == Init /\ [][Next]_vars /\ Fairness

-----------------------------------------------------------------------------
\* The packets of a run that make whole blocks: what is left over stays in the
\* ring.
Whole == asked - (asked % Cnt)

\* What the file holds are the run's packets from some block on, in order, none
\* torn by the driver, none twice and none of another run, whatever the ring and
\* its block have seen before - while the view keeps up.
InOrder ==
  "late" \notin excuse =>
    \E b \in 0..asked : /\ b % Cnt = 0 /\ b + Len(file) <= Whole
                        /\ "missed" \notin excuse => b = 0
                        /\ \A k \in 1..Len(file) : file[k] = Numbered(run, b + k)

\* A run that DAQ_DONE_IND has ended has all its whole blocks in the file, and
\* nobody is writing when the file is closed: the indication passes no block on
\* its way to the thread that closes it.  A click on Stop may come in the middle
\* of a block.
Complete ==
  ended = "done" /\ "late" \notin excuse /\ "missed" \notin excuse =>
    Len(file) = Whole /\ ~writing

\* A run that nobody stops ends, once the board is through, unless its end is
\* lost on the way: in the view's queue when that is full, or for want of a CM
\* slot, be it for DAQ_DONE_IND or for the request to stop.
Ends == running ~> (~running \/ "late" \in excuse \/ "noslot" \in excuse)
=============================================================================
