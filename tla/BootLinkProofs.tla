--------------------------- MODULE BootLinkProofs ---------------------------
(***************************************************************************)
(* Theorems about the command link, for every host, every length of a      *)
(* frame and of a response, every size of the receive ring, any number of  *)
(* frames, and with the link re-initialised at any time.                   *)
(***************************************************************************)
EXTENDS BootLink, SequenceTheorems, TLAPS

FrameUnit == [msg : Frame, unit : 1 .. FRAME_LENGTH]

\* What the host reads does not matter here.
LinkTypes ==
    /\ rx \in Seq(FrameUnit) /\ local_buffer \in Seq(FrameUnit) /\ collected \in Seq(FrameUnit)
    /\ frame \in Frame \cup {NoFrame}
    /\ next_frame \in Nat \ {0}
    /\ bus = [kind |-> bus.kind, frame |-> bus.frame, done |-> bus.done, got |-> bus.got,
              attached |-> bus.attached]
    /\ bus.kind = "write" => bus.frame \in Frame /\ bus.done \in 0 .. FRAME_LENGTH

-----------------------------------------------------------------------------
(* The last transaction.                                                   *)

\* The slave's view of the last transaction: a write it takes part in never
\* ends as a read, and an ended read has ended since the last JUMP.
ReadInv ==
    /\ bus.kind = "write" /\ bus.attached => slave_state # "SLAVE_TX"
    /\ slave_state = "SLAVE_TX_DONE" => read_since_jump

-----------------------------------------------------------------------------
(* The order of the units.                                                 *)

Before(u, v) == u.msg.n < v.msg.n \/ (u.msg.n = v.msg.n /\ u.unit < v.unit)

Ordered(s) == \A i, j \in 1 .. Len(s) : i < j => Before(s[i], s[j])

AllBefore(s, t) == \A i \in 1 .. Len(s), j \in 1 .. Len(t) : Before(s[i], t[j])

\* A unit that was sent, of a frame behind the one delivered last: f, with n
\* the number of the next frame and b the transaction on the bus.
FreshAt(u, f, n, b) ==
    /\ f.n < u.msg.n /\ u.msg.n < n
    /\ b.kind = "write" /\ u.msg.n = b.frame.n => u.unit <= b.done

Fresh(u) == FreshAt(u, frame, next_frame, bus)

AllFresh(s) == \A i \in 1 .. Len(s) : Fresh(s[i])

\* What is collected, then what was drained, then what is in the ring, is in
\* the order in which it was sent, and none of it belongs to a frame that was
\* delivered; nor does what the host has still to send.
OrderInv ==
    /\ Ordered(collected) /\ Ordered(local_buffer) /\ Ordered(rx)
    /\ AllBefore(collected, local_buffer) /\ AllBefore(collected, rx) /\ AllBefore(local_buffer, rx)
    /\ AllFresh(collected) /\ AllFresh(local_buffer) /\ AllFresh(rx)
    /\ mpc \notin {"parse", "handle", "write_head", "write_tail", "written"} => local_buffer = <<>>
    /\ frame.n < next_frame
    /\ bus.kind = "write" =>
          /\ bus.frame.n = next_frame - 1
          /\ frame.n < bus.frame.n \/ (frame.n = bus.frame.n /\ bus.done = FRAME_LENGTH)

LEMMA AppendKeeps ==
    ASSUME NEW s \in Seq(FrameUnit), NEW t \in Seq(FrameUnit), NEW e \in FrameUnit
    PROVE  /\ Append(s, e) \in Seq(FrameUnit)
           /\ Ordered(s) /\ (\A i \in 1 .. Len(s) : Before(s[i], e)) => Ordered(Append(s, e))
           /\ AllBefore(s, t) /\ (\A j \in 1 .. Len(t) : Before(e, t[j]))
                => AllBefore(Append(s, e), t)
           /\ AllBefore(t, s) /\ (\A j \in 1 .. Len(t) : Before(t[j], e))
                => AllBefore(t, Append(s, e))
           /\ AllFresh(s) /\ Fresh(e) => AllFresh(Append(s, e))
<1> DEFINE a == Append(s, e)
<1>1. a \in Seq(FrameUnit) /\ Len(a) = Len(s) + 1 /\ a[Len(s) + 1] = e
  OBVIOUS
<1>2. \A i \in 1 .. Len(s) : a[i] = s[i]
  OBVIOUS
<1>3. \A i \in 1 .. Len(a) : i \in 1 .. Len(s) \/ i = Len(s) + 1
  BY <1>1
<1> HIDE DEF a
<1>4. Ordered(s) /\ (\A i \in 1 .. Len(s) : Before(s[i], e)) => Ordered(a)
  BY <1>1, <1>2, <1>3 DEF Ordered
<1>5. AllBefore(s, t) /\ (\A j \in 1 .. Len(t) : Before(e, t[j])) => AllBefore(a, t)
  BY <1>1, <1>2, <1>3 DEF AllBefore
<1>6. AllBefore(t, s) /\ (\A j \in 1 .. Len(t) : Before(t[j], e)) => AllBefore(t, a)
  BY <1>1, <1>2, <1>3 DEF AllBefore
<1>7. AllFresh(s) /\ Fresh(e) => AllFresh(a)
  BY <1>1, <1>2, <1>3 DEF AllFresh
<1> QED
  BY <1>1, <1>4, <1>5, <1>6, <1>7 DEF a

LEMMA TailKeeps ==
    ASSUME NEW s \in Seq(FrameUnit), NEW t \in Seq(FrameUnit), s # <<>>
    PROVE  /\ Tail(s) \in Seq(FrameUnit) /\ Head(s) \in FrameUnit
           /\ Ordered(s) => Ordered(Tail(s)) /\ AllBefore(<<Head(s)>>, Tail(s))
           /\ AllBefore(s, t) => AllBefore(Tail(s), t) /\ AllBefore(<<Head(s)>>, t)
           /\ AllBefore(t, s) => AllBefore(t, Tail(s)) /\ AllBefore(t, <<Head(s)>>)
           /\ AllFresh(s) => AllFresh(Tail(s)) /\ Fresh(Head(s))
<1> DEFINE r == Tail(s)
<1>1. r \in Seq(FrameUnit) /\ Len(r) = Len(s) - 1 /\ Head(s) = s[1] /\ 1 \in 1 .. Len(s)
  OBVIOUS
<1>2. \A i \in 1 .. Len(r) : i + 1 \in 1 .. Len(s) /\ 1 < i + 1 /\ r[i] = s[i + 1]
  OBVIOUS
<1>3. Len(<<Head(s)>>) = 1 /\ <<Head(s)>>[1] = s[1] /\ \A i \in 1 .. 1 : i = 1
  BY <1>1
<1> HIDE DEF r
<1>4. Ordered(s) => Ordered(r) /\ AllBefore(<<Head(s)>>, r)
  <2> SUFFICES ASSUME Ordered(s) PROVE Ordered(r) /\ AllBefore(<<Head(s)>>, r)
    OBVIOUS
  <2>1. ASSUME NEW i \in 1 .. Len(r), NEW j \in 1 .. Len(r), i < j PROVE Before(r[i], r[j])
    <3>1. i + 1 < j + 1
      BY <2>1, <1>1
    <3> QED
      BY <2>1, <3>1, <1>2 DEF Ordered
  <2>2. AllBefore(<<Head(s)>>, r)
    BY <1>1, <1>2, <1>3 DEF AllBefore, Ordered
  <2> QED
    BY <2>1, <2>2 DEF Ordered
<1>5. AllBefore(s, t) => AllBefore(r, t) /\ AllBefore(<<Head(s)>>, t)
  BY <1>1, <1>2, <1>3 DEF AllBefore
<1>6. AllBefore(t, s) => AllBefore(t, r) /\ AllBefore(t, <<Head(s)>>)
  BY <1>1, <1>2, <1>3 DEF AllBefore
<1>7. AllFresh(s) => AllFresh(r) /\ Fresh(Head(s))
  BY <1>1, <1>2 DEF AllFresh
<1>8. Head(s) \in FrameUnit
  BY <1>1
<1> QED
  BY <1>1, <1>4, <1>5, <1>6, <1>7, <1>8 DEF r

LEMMA EmptyKeeps ==
    ASSUME NEW t \in Seq(FrameUnit)
    PROVE  Ordered(<<>>) /\ AllBefore(<<>>, t) /\ AllBefore(t, <<>>) /\ AllFresh(<<>>)
BY DEF Ordered, AllBefore, AllFresh

-----------------------------------------------------------------------------
(* Units on their way.                                                     *)

\* The byte on the bus is a unit of its frame.
LEMMA UnitSent ==
    LinkTypes /\ bus.kind = "write" /\ bus.done < FRAME_LENGTH
      => Unit(bus.frame, bus.done + 1) \in FrameUnit
<1> SUFFICES ASSUME LinkTypes, bus.kind = "write", bus.done < FRAME_LENGTH
             PROVE  Unit(bus.frame, bus.done + 1) \in FrameUnit
  OBVIOUS
<1>1. bus.frame \in Frame /\ bus.done + 1 \in 1 .. FRAME_LENGTH
  BY LinkAssumption DEF LinkTypes
<1> QED
  BY <1>1 DEF Unit, FrameUnit

\* The parser holds what it had and the next unit, or nothing.
LEMMA UnitPushed ==
    LinkTypes /\ local_buffer # <<>>
      => /\ Pushed \in Seq(FrameUnit)
         /\ Pushed = <<>> \/ Pushed = Append(collected, Head(local_buffer))
<1> SUFFICES ASSUME LinkTypes, local_buffer # <<>>
             PROVE  /\ Pushed \in Seq(FrameUnit)
                    /\ Pushed = <<>> \/ Pushed = Append(collected, Head(local_buffer))
  OBVIOUS
<1>1. Head(local_buffer) \in FrameUnit
  BY TailKeeps DEF LinkTypes
<1>2. Append(collected, Head(local_buffer)) \in Seq(FrameUnit) /\ <<>> \in Seq(FrameUnit)
  BY <1>1 DEF LinkTypes
<1> QED
  BY <1>2 DEF Pushed

\* A frame is delivered with its last unit.
LEMMA UnitDelivered ==
    LinkTypes /\ local_buffer # <<>> /\ Intact
      => /\ Pushed[1].msg = Head(local_buffer).msg
         /\ Pushed[1].msg \in Frame
         /\ Head(local_buffer).unit = FRAME_LENGTH
<1> SUFFICES ASSUME LinkTypes, local_buffer # <<>>, Intact
             PROVE  /\ Pushed[1].msg = Head(local_buffer).msg
                    /\ Pushed[1].msg \in Frame
                    /\ Head(local_buffer).unit = FRAME_LENGTH
  OBVIOUS
<1>1. Head(local_buffer) \in FrameUnit
  BY TailKeeps DEF LinkTypes
<1>2. FRAME_LENGTH \in 1 .. FRAME_LENGTH /\ Len(Pushed) = FRAME_LENGTH
  BY LinkAssumption DEF Intact, Complete
<1>3. Pushed = Append(collected, Head(local_buffer))
  BY <1>2, UnitPushed, LinkAssumption
<1>4. Pushed[FRAME_LENGTH] = Head(local_buffer)
  BY <1>1, <1>2, <1>3 DEF LinkTypes
<1>5. Head(local_buffer) = Unit(Pushed[1].msg, FRAME_LENGTH)
  BY <1>2, <1>4 DEF Intact
<1>6. Head(local_buffer).msg = Pushed[1].msg /\ Head(local_buffer).unit = FRAME_LENGTH
  BY <1>5 DEF Unit
<1>7. Head(local_buffer).msg \in Frame
  BY <1>1 DEF FrameUnit
<1> QED
  BY <1>6, <1>7

-----------------------------------------------------------------------------
(* Every step keeps the three parts of the invariant.                      *)

LEMMA InitialState == Init => LinkTypes /\ ReadInv /\ OrderInv
BY LinkAssumption
DEF Init, DriverInit, Idle, NoFrame, LinkTypes, ReadInv, OrderInv, Ordered, AllBefore, AllFresh

LEMMA TypesPreserved == LinkTypes /\ [Next]_vars => LinkTypes'
<1> SUFFICES ASSUME LinkTypes, [Next]_vars PROVE LinkTypes'
  OBVIOUS
<1> USE DEF LinkTypes, driver, host, schedule, main, parser, tx, Step
<1>1. ASSUME NEW cmd \in Commands, StartWrite(cmd) PROVE LinkTypes'
  <2>1. [n |-> next_frame, cmd |-> cmd] \in Frame /\ 0 \in 0 .. FRAME_LENGTH
    BY <1>1, LinkAssumption DEF StartWrite, Frame
  <2>2. bus' = [kind |-> "write", frame |-> [n |-> next_frame, cmd |-> cmd], done |-> 0,
                got |-> <<>>, attached |-> TRUE]
    BY <1>1 DEF StartWrite, Idle
  <2>3. UNCHANGED <<rx, local_buffer, collected, frame>> /\ next_frame' \in Nat \ {0}
    BY <1>1 DEF StartWrite, MatchWrite
  <2> QED
    BY <2>1, <2>2, <2>3
<1>2. CASE WriteByte
  <2>1. rx' \in Seq(FrameUnit)
    BY <1>2, UnitSent, AppendKeeps DEF WriteByte, ReceiveFull
  <2>2. bus.done + 1 \in 0 .. FRAME_LENGTH
    BY <1>2, LinkAssumption DEF WriteByte
  <2> QED
    BY <1>2, <2>1, <2>2 DEF WriteByte, ReceiveFull
<1>3. CASE EndWrite
  BY <1>3 DEF EndWrite, Stop, StopDetected, Idle
<1>4. CASE StartRead
  BY <1>4 DEF StartRead, MatchRead, SendByte, Idle
<1>5. CASE ReadByte
  BY <1>5 DEF ReadByte, TransmitEmpty, SendByte
<1>6. CASE EndRead
  BY <1>6 DEF EndRead, Stop, StopDetected, Idle
<1>7. CASE SysTick_Handler
  BY <1>7 DEF SysTick_Handler, TickLoad, TickStore
<1>8. CASE CheckRx
  BY <1>8 DEF CheckRx
<1>9. CASE DrainRx
  BY <1>9 DEF DrainRx, rxBufferDrain
<1>10. CASE PushByte
  BY <1>10, UnitPushed, TailKeeps DEF PushByte
<1>11. CASE DeliverFrame
  BY <1>11, UnitDelivered, TailKeeps DEF DeliverFrame, basp_i2c_slave_err_reset
<1>12. CASE EndParse
  BY <1>12 DEF EndParse
<1>13. CASE HandleFrame
  BY <1>13 DEF HandleFrame, txBufferWriteData
<1>14. CASE WriteHead
  BY <1>14 DEF WriteHead, txBufferWriteHead
<1>15. CASE WriteTail
  BY <1>15 DEF WriteTail, txBufferWriteTail
<1>16. CASE FinishFrame
  BY <1>16 DEF FinishFrame
<1>17. CASE UpdateNotDue
  BY <1>17 DEF UpdateNotDue
<1>18. CASE UpdateDeinit
  BY <1>18 DEF UpdateDeinit, bsp_i2c_slave_deinit
<1>19. CASE UpdateInitEnable
  BY <1>19 DEF UpdateInitEnable, InitEnable
<1>20. CASE UpdateInitFails
  BY <1>20 DEF UpdateInitFails, basp_i2c_slave_err_reset
<1>21. CASE UpdateInitClearState
  BY <1>21 DEF UpdateInitClearState, InitClearState
<1>22. CASE UpdateInitClearRx
  BY <1>22 DEF UpdateInitClearRx, InitClearRx
<1>23. CASE UpdateInitClearTxData
  BY <1>23 DEF UpdateInitClearTxData, InitClearTxData
<1>24. CASE UpdateInitClearTxIndexes
  BY <1>24 DEF UpdateInitClearTxIndexes, InitClearTxIndexes
<1>25. CASE UpdateInitEnds
  BY <1>25 DEF UpdateInitEnds, basp_i2c_slave_err_reset
<1>26. CASE JumpNotDue
  BY <1>26 DEF JumpNotDue
<1>27. CASE TakeJump
  BY <1>27 DEF TakeJump, bsp_i2c_slave_deinit
<1>28. CASE UNCHANGED vars
  BY <1>28 DEF vars
<1> QED
  BY <1>1, <1>2, <1>3, <1>4, <1>5, <1>6, <1>7, <1>8, <1>9, <1>10, <1>11, <1>12, <1>13, <1>14,
     <1>15, <1>16, <1>17, <1>18, <1>19, <1>20, <1>21, <1>22, <1>23, <1>24, <1>25, <1>26, <1>27,
     <1>28 DEF Next, Bus, SysTick_Handler, MainStep

LEMMA ReadPreserved == LinkTypes /\ ReadInv /\ [Next]_vars => ReadInv'
<1> SUFFICES ASSUME LinkTypes, ReadInv, [Next]_vars PROVE ReadInv'
  OBVIOUS
<1> USE DEF LinkTypes, ReadInv, driver, host, schedule, main, parser, tx, Step
<1>1. ASSUME NEW cmd \in Commands, StartWrite(cmd) PROVE ReadInv'
  BY <1>1 DEF StartWrite, MatchWrite, Idle
<1>2. CASE WriteByte
  BY <1>2 DEF WriteByte, ReceiveFull
<1>3. CASE EndWrite
  BY <1>3 DEF EndWrite, Stop, StopDetected, Idle
<1>4. CASE StartRead
  BY <1>4 DEF StartRead, MatchRead, SendByte, Idle
<1>5. CASE ReadByte
  BY <1>5 DEF ReadByte, TransmitEmpty, SendByte
<1>6. CASE EndRead
  BY <1>6 DEF EndRead, Stop, StopDetected, Idle
<1>7. CASE SysTick_Handler
  BY <1>7 DEF SysTick_Handler, TickLoad, TickStore
<1>8. CASE CheckRx
  BY <1>8 DEF CheckRx
<1>9. CASE DrainRx
  BY <1>9 DEF DrainRx, rxBufferDrain
<1>10. CASE PushByte
  BY <1>10 DEF PushByte
<1>11. CASE DeliverFrame
  BY <1>11 DEF DeliverFrame, basp_i2c_slave_err_reset
<1>12. CASE EndParse
  BY <1>12 DEF EndParse
<1>13. CASE HandleFrame
  BY <1>13 DEF HandleFrame, txBufferWriteData
<1>14. CASE WriteHead
  BY <1>14 DEF WriteHead, txBufferWriteHead
<1>15. CASE WriteTail
  BY <1>15 DEF WriteTail, txBufferWriteTail
<1>16. CASE FinishFrame
  BY <1>16 DEF FinishFrame
<1>17. CASE UpdateNotDue
  BY <1>17 DEF UpdateNotDue
<1>18. CASE UpdateDeinit
  BY <1>18 DEF UpdateDeinit, bsp_i2c_slave_deinit
<1>19. CASE UpdateInitEnable
  BY <1>19 DEF UpdateInitEnable, InitEnable
<1>20. CASE UpdateInitFails
  BY <1>20 DEF UpdateInitFails, basp_i2c_slave_err_reset
<1>21. CASE UpdateInitClearState
  BY <1>21 DEF UpdateInitClearState, InitClearState
<1>22. CASE UpdateInitClearRx
  BY <1>22 DEF UpdateInitClearRx, InitClearRx
<1>23. CASE UpdateInitClearTxData
  BY <1>23 DEF UpdateInitClearTxData, InitClearTxData
<1>24. CASE UpdateInitClearTxIndexes
  BY <1>24 DEF UpdateInitClearTxIndexes, InitClearTxIndexes
<1>25. CASE UpdateInitEnds
  BY <1>25 DEF UpdateInitEnds, basp_i2c_slave_err_reset
<1>26. CASE JumpNotDue
  BY <1>26 DEF JumpNotDue
<1>27. CASE TakeJump
  BY <1>27 DEF TakeJump, bsp_i2c_slave_deinit
<1>28. CASE UNCHANGED vars
  BY <1>28 DEF vars
<1> QED
  BY <1>1, <1>2, <1>3, <1>4, <1>5, <1>6, <1>7, <1>8, <1>9, <1>10, <1>11, <1>12, <1>13, <1>14,
     <1>15, <1>16, <1>17, <1>18, <1>19, <1>20, <1>21, <1>22, <1>23, <1>24, <1>25, <1>26, <1>27,
     <1>28 DEF Next, Bus, SysTick_Handler, MainStep

LEMMA OrderPreserved == LinkTypes /\ OrderInv /\ [Next]_vars => OrderInv'
<1> SUFFICES ASSUME LinkTypes, OrderInv, [Next]_vars PROVE OrderInv'
  OBVIOUS
<1> USE DEF OrderInv, AllFresh, Fresh, FreshAt, driver, host, schedule, main, parser, tx, Step
<1>1. ASSUME NEW cmd \in Commands, StartWrite(cmd) PROVE OrderInv'
  <2>1. /\ UNCHANGED <<rx, local_buffer, collected, frame, mpc>>
        /\ next_frame' = next_frame + 1
        /\ bus'.kind = "write" /\ bus'.done = 0 /\ bus'.frame.n = next_frame
    BY <1>1 DEF StartWrite, MatchWrite, Idle
  <2>2. frame.n \in Nat /\ next_frame \in Nat
    BY LinkAssumption DEF LinkTypes, Frame, NoFrame
  <2>3. ASSUME NEW u \in FrameUnit, Fresh(u) PROVE Fresh(u)'
    BY <2>1, <2>2, <2>3 DEF FrameUnit, Frame
  <2>4. \A s \in {rx, local_buffer, collected} : s \in Seq(FrameUnit) /\ AllFresh(s)
    BY DEF LinkTypes
  <2>5. \A s \in {rx, local_buffer, collected} : \A k \in 1 .. Len(s) : Fresh(s[k])'
    BY <2>3, <2>4 DEF AllFresh
  <2> HIDE DEF Fresh, FreshAt
  <2>6. AllFresh(rx)' /\ AllFresh(local_buffer)' /\ AllFresh(collected)'
    BY <2>1, <2>5 DEF AllFresh
  <2> QED
    BY <2>1, <2>2, <2>6
<1>2. CASE WriteByte
  <2> DEFINE e == Unit(bus.frame, bus.done + 1)
             N(u) == FreshAt(u, frame', next_frame', bus')
  <2>1. e \in FrameUnit /\ e.msg = bus.frame /\ e.unit = bus.done + 1
    BY <1>2, UnitSent DEF WriteByte, Unit
  <2>2. /\ UNCHANGED <<local_buffer, collected, frame, mpc, next_frame>>
        /\ bus'.kind = "write" /\ bus'.frame = bus.frame /\ bus'.done = bus.done + 1
        /\ bus.kind = "write" /\ bus.done < FRAME_LENGTH
        /\ rx' \in {rx, Append(rx, e)}
    BY <1>2 DEF WriteByte, ReceiveFull, LinkTypes
  <2> HIDE DEF e
  <2>3. frame.n \in Nat /\ next_frame \in Nat /\ bus.frame.n \in Nat /\ bus.done \in Nat
    BY <2>2, LinkAssumption DEF LinkTypes, Frame, NoFrame
  <2>4. ASSUME NEW u \in FrameUnit, Fresh(u) PROVE N(u) /\ Before(u, e)
    BY <2>1, <2>2, <2>3, <2>4 DEF FrameUnit, Frame, Before
  <2>5. N(e)
    <3>1. bus.frame.n = next_frame - 1 /\ frame.n < bus.frame.n
      BY <2>2, <2>3, LinkAssumption
    <3> QED
      BY <2>1, <2>2, <2>3, <3>1
  <2>6. \A s \in {rx, local_buffer, collected} : s \in Seq(FrameUnit) /\ AllFresh(s)
    BY DEF LinkTypes
  <2>7. \A s \in {rx, local_buffer, collected} : \A k \in 1 .. Len(s) : N(s[k]) /\ Before(s[k], e)
    BY <2>4, <2>6 DEF AllFresh
  <2> HIDE DEF Fresh, FreshAt, N
  <2>8. \A k \in 1 .. Len(rx') : rx'[k] = e \/ \E m \in 1 .. Len(rx) : rx'[k] = rx[m]
    BY <2>1, <2>2, <2>6
  <2>9. AllFresh(rx)' /\ AllFresh(local_buffer)' /\ AllFresh(collected)'
    <3>1. \A k \in 1 .. Len(rx') : N(rx'[k])
      BY <2>5, <2>7, <2>8
    <3>2. \A k \in 1 .. Len(local_buffer') : N(local_buffer'[k])
      BY <2>2, <2>7
    <3>3. \A k \in 1 .. Len(collected') : N(collected'[k])
      BY <2>2, <2>7
    <3> QED
      BY <3>1, <3>2, <3>3 DEF AllFresh, Fresh, N
  <2>10. Ordered(rx') /\ AllBefore(collected, rx') /\ AllBefore(local_buffer, rx')
    <3>1. /\ Ordered(Append(rx, e)) /\ AllBefore(collected, Append(rx, e))
          /\ AllBefore(local_buffer, Append(rx, e))
      BY <2>1, <2>6, <2>7, AppendKeeps
    <3> QED
      BY <2>2, <3>1
  <2> QED
    BY <2>2, <2>3, <2>9, <2>10, LinkAssumption DEF Ordered, AllBefore
<1>3. CASE EndWrite
  BY <1>3 DEF EndWrite, Stop, StopDetected, Idle
<1>4. CASE StartRead
  BY <1>4 DEF StartRead, MatchRead, SendByte, Idle
<1>5. CASE ReadByte
  BY <1>5 DEF ReadByte, TransmitEmpty, SendByte
<1>6. CASE EndRead
  BY <1>6 DEF EndRead, Stop, StopDetected, Idle
<1>7. CASE SysTick_Handler
  BY <1>7 DEF SysTick_Handler, TickLoad, TickStore
<1>8. CASE CheckRx
  BY <1>8 DEF CheckRx
<1>9. CASE DrainRx
  <2>1. /\ rx' = <<>> /\ local_buffer' = rx /\ mpc' = "parse"
        /\ UNCHANGED <<collected, frame, next_frame, bus>>
    BY <1>9 DEF DrainRx, rxBufferDrain
  <2>2. /\ Ordered(<<>>) /\ AllFresh(<<>>)
        /\ AllBefore(collected, <<>>) /\ AllBefore(rx, <<>>)
    BY EmptyKeeps DEF LinkTypes
  <2>3. Ordered(rx') /\ Ordered(local_buffer') /\ Ordered(collected')
    BY <2>1, <2>2
  <2>4. /\ AllBefore(collected', local_buffer') /\ AllBefore(collected', rx')
        /\ AllBefore(local_buffer', rx')
    BY <2>1, <2>2
  <2>5. AllFresh(rx)' /\ AllFresh(local_buffer)' /\ AllFresh(collected)'
    BY <2>1, <2>2
  <2> QED
    BY <2>1, <2>3, <2>4, <2>5 DEF Ordered, AllBefore
<1>10. CASE PushByte
  <2> DEFINE h == Head(local_buffer)
               t == Tail(local_buffer)
               c == Append(collected, h)
  <2>1. /\ local_buffer # <<>> /\ local_buffer' = t /\ mpc = "parse" /\ collected' \in {<<>>, c}
        /\ UNCHANGED <<rx, frame, next_frame, bus, mpc>>
    BY <1>10, UnitPushed DEF PushByte
  <2> HIDE DEF Fresh, FreshAt
  <2>2. /\ t \in Seq(FrameUnit) /\ h \in FrameUnit
        /\ Ordered(t) /\ AllBefore(t, rx) /\ AllBefore(collected, t) /\ AllFresh(t)
        /\ AllBefore(<<h>>, t) /\ AllBefore(<<h>>, rx) /\ AllBefore(collected, <<h>>) /\ Fresh(h)
    BY <2>1, TailKeeps DEF LinkTypes
  <2>3. /\ \A k \in 1 .. Len(t) : Before(h, t[k])
        /\ \A k \in 1 .. Len(rx) : Before(h, rx[k])
        /\ \A k \in 1 .. Len(collected) : Before(collected[k], h)
    BY <2>2 DEF AllBefore
  <2> HIDE DEF h, t
  <2>4. Ordered(c) /\ AllBefore(c, t) /\ AllBefore(c, rx) /\ AllFresh(c)
    BY <2>2, <2>3, AppendKeeps DEF LinkTypes
  <2>5. Ordered(<<>>) /\ AllBefore(<<>>, t) /\ AllBefore(<<>>, rx) /\ AllFresh(<<>>)
    BY <2>2, EmptyKeeps DEF LinkTypes
  <2> HIDE DEF c
  <2>6. /\ Ordered(rx') /\ Ordered(local_buffer') /\ Ordered(collected')
        /\ AllBefore(collected', local_buffer') /\ AllBefore(collected', rx')
        /\ AllBefore(local_buffer', rx')
    BY <2>1, <2>2, <2>4, <2>5
  <2>7. AllFresh(rx') /\ AllFresh(local_buffer') /\ AllFresh(collected')
    BY <2>1, <2>2, <2>4, <2>5
  <2>8. AllFresh(rx)' /\ AllFresh(local_buffer)' /\ AllFresh(collected)'
    BY <2>1, <2>7 DEF Fresh, FreshAt
  <2> QED
    BY <2>1, <2>6, <2>8 DEF Ordered, AllBefore
<1>11. CASE DeliverFrame
  <2> DEFINE h == Head(local_buffer)
               t == Tail(local_buffer)
               N(u) == FreshAt(u, frame', next_frame', bus')
  <2>1. /\ local_buffer # <<>> /\ local_buffer' = t /\ collected' = <<>> /\ mpc' = "handle"
        /\ frame' = h.msg /\ h.unit = FRAME_LENGTH
        /\ UNCHANGED <<rx, next_frame, bus>>
    BY <1>11, UnitDelivered DEF DeliverFrame, basp_i2c_slave_err_reset
  <2> HIDE DEF Fresh, FreshAt
  <2>2. /\ t \in Seq(FrameUnit) /\ h \in FrameUnit
        /\ Ordered(t) /\ AllBefore(t, rx) /\ AllFresh(t)
        /\ AllBefore(<<h>>, t) /\ AllBefore(<<h>>, rx) /\ Fresh(h)
    BY <2>1, TailKeeps DEF LinkTypes
  <2>3. /\ \A k \in 1 .. Len(t) : Before(h, t[k])
        /\ \A k \in 1 .. Len(rx) : Before(h, rx[k])
    BY <2>2 DEF AllBefore
  <2> HIDE DEF h, t
  <2>4. ASSUME NEW u \in FrameUnit, Fresh(u), Before(h, u) PROVE N(u)
    BY <2>1, <2>2, <2>4 DEF Fresh, FreshAt, Before, FrameUnit, Frame
  <2> HIDE DEF N
  <2>5. /\ \A k \in 1 .. Len(t) : N(t[k])
        /\ \A k \in 1 .. Len(rx) : N(rx[k])
    <3>1. /\ \A k \in 1 .. Len(t) : t[k] \in FrameUnit /\ Fresh(t[k])
          /\ \A k \in 1 .. Len(rx) : rx[k] \in FrameUnit /\ Fresh(rx[k])
      BY <2>2 DEF LinkTypes, AllFresh
    <3> QED
      BY <2>3, <2>4, <3>1
  <2>6. AllFresh(rx)' /\ AllFresh(local_buffer)' /\ AllFresh(collected)'
    BY <2>1, <2>5 DEF AllFresh, Fresh, N
  <2>7. /\ Ordered(rx') /\ Ordered(local_buffer') /\ Ordered(collected')
        /\ AllBefore(collected', local_buffer') /\ AllBefore(collected', rx')
        /\ AllBefore(local_buffer', rx')
    BY <2>1, <2>2, EmptyKeeps DEF LinkTypes
  <2>8. frame'.n < next_frame'
    BY <2>1, <2>2 DEF Fresh, FreshAt
  <2>9. bus.kind = "write" =>
          h.msg.n < bus.frame.n \/ (h.msg.n = bus.frame.n /\ bus.done = FRAME_LENGTH)
    <3>1. MaxFrames \in Nat /\ FRAME_LENGTH \in Nat
      BY LinkAssumption
    <3>2. h.msg.n \in Nat /\ next_frame \in Nat
      BY <2>2, <3>1 DEF LinkTypes, FrameUnit, Frame
    <3>3. bus.kind = "write" => bus.frame.n = next_frame - 1 /\ bus.done \in 0 .. FRAME_LENGTH
      BY DEF LinkTypes
    <3> QED
      BY <2>1, <2>2, <3>1, <3>2, <3>3 DEF Fresh, FreshAt
  <2> QED
    BY <2>1, <2>6, <2>7, <2>8, <2>9 DEF Ordered, AllBefore
<1>12. CASE EndParse
  BY <1>12 DEF EndParse
<1>13. CASE HandleFrame
  BY <1>13 DEF HandleFrame, txBufferWriteData
<1>14. CASE WriteHead
  BY <1>14 DEF WriteHead, txBufferWriteHead
<1>15. CASE WriteTail
  BY <1>15 DEF WriteTail, txBufferWriteTail
<1>16. CASE FinishFrame
  BY <1>16 DEF FinishFrame
<1>17. CASE UpdateNotDue
  BY <1>17 DEF UpdateNotDue
<1>18. CASE UpdateDeinit
  BY <1>18 DEF UpdateDeinit, bsp_i2c_slave_deinit
<1>19. CASE UpdateInitEnable
  BY <1>19 DEF UpdateInitEnable, InitEnable
<1>20. CASE UpdateInitFails
  BY <1>20 DEF UpdateInitFails, basp_i2c_slave_err_reset
<1>21. CASE UpdateInitClearState
  BY <1>21 DEF UpdateInitClearState, InitClearState
<1>22. CASE UpdateInitClearRx
  <2>1. /\ rx' = <<>> /\ mpc # "parse" /\ mpc' = "clear_tx_data" /\ local_buffer = <<>>
        /\ UNCHANGED <<local_buffer, collected, frame, next_frame, bus>>
    BY <1>22 DEF UpdateInitClearRx, InitClearRx
  <2>2. /\ Ordered(<<>>) /\ AllFresh(<<>>)
        /\ AllBefore(collected, <<>>) /\ AllBefore(local_buffer, <<>>)
    BY EmptyKeeps DEF LinkTypes
  <2>3. AllFresh(rx)' /\ AllFresh(local_buffer)' /\ AllFresh(collected)'
    BY <2>1, <2>2
  <2>4. Ordered(rx') /\ AllBefore(collected', rx') /\ AllBefore(local_buffer', rx')
    BY <2>1, <2>2
  <2> QED
    BY <2>1, <2>3, <2>4 DEF Ordered, AllBefore
<1>23. CASE UpdateInitClearTxData
  BY <1>23 DEF UpdateInitClearTxData, InitClearTxData
<1>24. CASE UpdateInitClearTxIndexes
  BY <1>24 DEF UpdateInitClearTxIndexes, InitClearTxIndexes
<1>25. CASE UpdateInitEnds
  BY <1>25 DEF UpdateInitEnds, basp_i2c_slave_err_reset
<1>26. CASE JumpNotDue
  BY <1>26 DEF JumpNotDue
<1>27. CASE TakeJump
  BY <1>27 DEF TakeJump, bsp_i2c_slave_deinit
<1>28. CASE UNCHANGED vars
  BY <1>28 DEF vars
<1> QED
  BY <1>1, <1>2, <1>3, <1>4, <1>5, <1>6, <1>7, <1>8, <1>9, <1>10, <1>11, <1>12, <1>13, <1>14,
     <1>15, <1>16, <1>17, <1>18, <1>19, <1>20, <1>21, <1>22, <1>23, <1>24, <1>25, <1>26, <1>27,
     <1>28 DEF Next, Bus, SysTick_Handler, MainStep

LEMMA Invariant == Spec => [](LinkTypes /\ ReadInv /\ OrderInv)
BY InitialState, TypesPreserved, ReadPreserved, OrderPreserved, PTL DEF Spec

-----------------------------------------------------------------------------
\* No other action takes the jump.
LEMMA OnlyTakeJump == [Next]_vars /\ Jumps => TakeJump
BY DEF Jumps, Next, Bus, SysTick_Handler, MainStep, vars, host, schedule, main, parser, driver,
   StartWrite, WriteByte,
   EndWrite, StartRead, ReadByte, EndRead, CheckRx, DrainRx, PushByte, EndParse, HandleFrame,
   WriteHead, WriteTail, FinishFrame, UpdateNotDue, UpdateDeinit, UpdateInitEnable,
   UpdateInitFails, UpdateInitClearState, UpdateInitClearRx, UpdateInitClearTxData,
   UpdateInitClearTxIndexes, UpdateInitEnds, JumpNotDue, TakeJump, DeliverFrame, Step

\* For every host, however it interleaves its transactions with the main loop
\* and wherever the link is re-initialised, a read has ended since the host
\* began its last JUMP when the jump is taken.
THEOREM JumpsNeedARead == Spec => JumpNeedsARead
<1>1. ReadInv /\ [Next]_vars => [Jumps => read_since_jump]_vars
  <2> SUFFICES ASSUME ReadInv, [Next]_vars, Jumps PROVE read_since_jump
    OBVIOUS
  <2>1. TakeJump
    BY OnlyTakeJump
  <2> QED
    BY <2>1 DEF ReadInv, TakeJump
<1> QED
  BY <1>1, Invariant, PTL DEF Spec, JumpNeedsARead

\* Whatever is truncated, dropped by the ring or cut by a re-initialisation,
\* no frame is handled twice or behind a later one.
THEOREM FramesInOrder == Spec => FramesHandledInOrder
<1>1. LinkTypes /\ OrderInv /\ [Next]_vars =>
        [mpc = "parse" /\ mpc' = "handle" => frame'.n > frame.n]_vars
  <2> SUFFICES ASSUME LinkTypes, OrderInv, [Next]_vars, mpc = "parse", mpc' = "handle"
               PROVE  frame'.n > frame.n
    OBVIOUS
  <2>1. DeliverFrame
    BY DEF Next, Bus, SysTick_Handler, MainStep, vars, host, schedule, main, parser, driver,
      StartWrite, WriteByte,
      EndWrite, StartRead, ReadByte, EndRead, CheckRx, DrainRx, PushByte, EndParse, HandleFrame,
      WriteHead, WriteTail, FinishFrame, UpdateNotDue, UpdateDeinit, UpdateInitEnable,
      UpdateInitFails, UpdateInitClearState, UpdateInitClearRx, UpdateInitClearTxData,
   UpdateInitClearTxIndexes, UpdateInitEnds, JumpNotDue, TakeJump, DeliverFrame, Step
  <2>2. local_buffer # <<>> /\ frame' = Head(local_buffer).msg
    BY <2>1, UnitDelivered DEF DeliverFrame
  <2>3. Fresh(Head(local_buffer)) /\ Head(local_buffer) \in FrameUnit
    BY <2>2, TailKeeps DEF OrderInv, LinkTypes
  <2>4. frame.n \in Nat
    BY LinkAssumption DEF LinkTypes, Frame, NoFrame
  <2> QED
    BY <2>2, <2>3, <2>4 DEF Fresh, FreshAt, FrameUnit, Frame
<1> QED
  BY <1>1, Invariant, PTL DEF Spec, FramesHandledInOrder

-----------------------------------------------------------------------------
(* The answer of a patient host, one that ends no transaction early.       *)

\* The bounds that such a host and the main loop keep to: the processing
\* delay covers a frame's write, the iteration that just missed it, the one
\* that drains it, and its handler; and the answer is read before err_count
\* can reach its limit.
HostInTime ==
    /\ HostPatient /\ ~HostAborts
    /\ FrameTime + 2 * MaxLoop + MaxHandle < ReadFrom
    /\ ReadUntil < ERR_LIMIT

Accepted == \E a \in acked : a.cmd = "JUMP" /\ a.ok

\* The ACK of a JUMP frame.
Ack(f) == [n |-> f.n, cmd |-> f.cmd, ok |-> TRUE]

\* The transaction on the bus, and the time since its frame began.
BusInv ==
    /\ loop_ms \in Nat /\ host_ms \in Nat /\ err_count \in Nat /\ tick \in Nat
    /\ loop_ms <= (IF Handling THEN MaxHandle ELSE MaxLoop)
    /\ bus.kind = "write" => awaiting /\ host_ms <= FrameTime
    /\ bus.kind = "read" => awaiting /\ ReadFrom <= host_ms
    /\ bus.attached => irq_on /\ bus.kind # "none"
    /\ bus.kind = "write" /\ bus.attached => slave_state = "SLAVE_RX"
    /\ awaiting /\ bus.kind # "read" => slave_state \in {"SLAVE_RX", "SLAVE_RX_DONE"}

OfLastFrame(s) == \A i \in 1 .. Len(s) : s[i].msg.n = next_frame - 1

\* The units in the ring are of a write in progress, or of one that ended and
\* whose iteration has begun or begins next, or of one that the link was
\* turned off under and that nobody will drain.
Arriving == bus.kind = "write" /\ bus.attached

Arrived ==
    /\ awaiting /\ slave_state = "SLAVE_RX_DONE"
    /\ host_ms <= FrameTime + loop_ms + (IF mpc \in {"check", "drain"} THEN MaxLoop ELSE 0)

Abandoned == ~irq_on /\ slave_state # "SLAVE_RX_DONE" /\ mpc # "drain"

\* What is drained and handled is the frame the host awaits the answer to, and
\* it is handled before the host reads.
FlowInv ==
    /\ rx # <<>> /\ ~Handling /\ mpc \notin {"clear_state", "clear_rx"} =>
          Abandoned \/ (OfLastFrame(rx) /\ (Arriving \/ Arrived))
    /\ mpc = "parse" /\ local_buffer # <<>> =>
          awaiting /\ OfLastFrame(local_buffer) /\ host_ms <= FrameTime + MaxLoop + loop_ms
    /\ Handling =>
          awaiting /\ frame.n = next_frame - 1 /\ host_ms <= FrameTime + 2 * MaxLoop + loop_ms

InitSteps ==
    {"init", "clear_state", "clear_rx", "clear_tx_data", "clear_tx_indexes", "clear_err"}

\* err_count was reset with the delivery, so the link is not re-initialised
\* before the host's time to read is over.
CountInv ==
    awaiting /\ frame.n = next_frame - 1 /\ host_ms <= ReadUntil =>
        /\ err_count <= host_ms
        /\ tick = NoTick \/ tick < host_ms
        /\ mpc \notin InitSteps

ArmedInv ==
    /\ armed => /\ mpc \in {"write_head", "write_tail", "written"}
                /\ frame.cmd = "JUMP" /\ tx_data = Response(Ack(frame))
    /\ mpc \in {"write_tail", "written"} => tx_head = TX_LENGTH
    /\ mpc = "written" => tx_tail = 0

\* From a JUMP that was accepted to the read that ends with its ACK.  A link
\* that was off meanwhile comes back too late for the host to read.
Waiting ==
    /\ frame \in Frame /\ frame.cmd = "JUMP"
    /\ frame.n = next_frame - 1 /\ awaiting /\ ~Handling
    /\ irq_on /\ host_ms <= ReadUntil =>
          /\ tx_data = Response(Ack(frame)) /\ tx_head = TX_LENGTH
          /\ bus.kind # "read" => tx_tail = 0
    /\ bus.kind = "read" =>
          /\ irq_on /\ host_ms <= ReadUntil /\ bus.attached /\ slave_state = "SLAVE_TX"
          /\ bus.done \in 1 .. TX_LENGTH /\ tx_tail = bus.done
          /\ bus.got = [k \in 1 .. bus.done |-> Unit(Ack(frame), k)]

WaitInv == jump_requested => Accepted \/ Waiting

TimedInv == BusInv /\ FlowInv /\ CountInv /\ ArmedInv /\ WaitInv

LEMMA Bounds ==
    /\ FrameTime \in Nat /\ MaxLoop \in Nat /\ MaxHandle \in Nat
    /\ ReadFrom \in Nat /\ ReadUntil \in Nat /\ NextUntil \in Nat /\ ReadUntil <= NextUntil
    /\ ERR_LIMIT \in Nat \ {0} /\ TX_LENGTH \in Nat \ {0} /\ FRAME_LENGTH \in Nat \ {0}
    /\ MaxFrames \in Nat
BY LinkAssumption, DriverAssumption

LEMMA FrameNumber == LinkTypes => frame.n \in Nat /\ next_frame \in Nat
BY Bounds DEF LinkTypes, Frame, NoFrame

\* Behind the delivery of the frame sent last nothing is left to drain.
LEMMA NothingLeft ==
    LinkTypes /\ OrderInv /\ frame.n = next_frame - 1
      => rx = <<>> /\ local_buffer = <<>>
<1> SUFFICES ASSUME LinkTypes, OrderInv, frame.n = next_frame - 1
             PROVE  rx = <<>> /\ local_buffer = <<>>
  OBVIOUS
<1>1. \A s \in {rx, local_buffer} : s \in Seq(FrameUnit) /\ AllFresh(s)
  BY DEF LinkTypes, OrderInv
<1>2. ASSUME NEW u \in FrameUnit PROVE ~Fresh(u)
  <2>1. u.msg.n \in Nat
    BY Bounds DEF FrameUnit, Frame
  <2> QED
    BY <2>1, FrameNumber DEF Fresh, FreshAt
<1>3. ASSUME NEW s \in Seq(FrameUnit), AllFresh(s) PROVE s = <<>>
  <2>1. s # <<>> => 1 \in 1 .. Len(s) /\ s[1] \in FrameUnit
    OBVIOUS
  <2> QED
    BY <1>2, <1>3, <2>1 DEF AllFresh
<1> QED
  BY <1>1, <1>3

\* A tick moves the clocks, and nothing else of the link.
LEMMA Clocks ==
    HostPatient /\ SysTick_Handler
      => /\ UNCHANGED <<irq_on, slave_state, rx, tx_data, tx_head, tx_tail, bus, next_frame, acked,
                       awaiting, mpc, local_buffer, collected, frame, armed, jump_requested>>
         /\ \/ /\ loop_ms' = loop_ms + 1 /\ loop_ms < (IF Handling THEN MaxHandle ELSE MaxLoop)
               /\ host_ms' = (IF host_ms <= NextUntil THEN host_ms + 1 ELSE host_ms)
               /\ bus.kind = "write" => host_ms < FrameTime
               /\ awaiting /\ irq_on => host_ms # ReadUntil
               /\ tick' = err_count /\ err_count' = err_count
            \/ /\ loop_ms' = loop_ms /\ host_ms' = host_ms
               /\ tick # NoTick /\ tick' = NoTick
               /\ err_count' = (IF tick < ERR_LIMIT THEN tick + 1 ELSE tick)
BY DEF SysTick_Handler, OnTime, Millisecond, TickLoad, TickStore, tx, parser

LEMMA BusPreserved ==
    HostInTime /\ LinkTypes /\ BusInv /\ [Next]_vars => BusInv'
<1> SUFFICES ASSUME HostInTime, LinkTypes, BusInv, [Next]_vars PROVE BusInv'
  OBVIOUS
<1>0. bus = [kind |-> bus.kind, frame |-> bus.frame, done |-> bus.done, got |-> bus.got,
             attached |-> bus.attached]
  BY DEF LinkTypes
<1>a. HostPatient /\ ~HostAborts
  BY DEF HostInTime
<1> USE DEF BusInv, Handling, driver, host, schedule, main, parser, tx, Step
<1>1. ASSUME NEW cmd \in Commands, StartWrite(cmd) PROVE BusInv'
  BY <1>1, <1>0, <1>a, Bounds DEF StartWrite, MayWrite, MatchWrite, Idle
<1>2. CASE WriteByte
  BY <1>2, <1>0, <1>a, Bounds DEF WriteByte, ReceiveFull
<1>3. CASE EndWrite
  BY <1>3, <1>0, <1>a, Bounds DEF EndWrite, Stop, StopDetected, Idle
<1>4. CASE StartRead
  BY <1>4, <1>0, <1>a, Bounds DEF StartRead, MayRead, MatchRead, SendByte, Idle
<1>5. CASE ReadByte
  BY <1>5, <1>0, <1>a, Bounds DEF ReadByte, TransmitEmpty, SendByte
<1>6. CASE EndRead
  <2>1. /\ bus'.kind = "none" /\ bus'.attached = FALSE /\ awaiting' = FALSE
        /\ UNCHANGED <<host_ms, loop_ms, mpc, tick>>
    BY <1>6 DEF EndRead, Stop, StopDetected, Idle
  <2>2. err_count' \in Nat
    BY <1>6 DEF EndRead, Stop, StopDetected
  <2> QED
    BY <2>1, <2>2
<1>7. CASE SysTick_Handler
  <2>1. UNCHANGED <<bus, awaiting, slave_state, irq_on, mpc>>
    BY <1>7, <1>a, Clocks, Bounds
  <2>2. loop_ms' \in Nat /\ host_ms' \in Nat /\ err_count' \in Nat /\ tick' \in Nat
    BY <1>7, <1>a, Clocks, Bounds DEF NoTick
  <2>3. loop_ms' <= (IF Handling THEN MaxHandle ELSE MaxLoop)
    BY <1>7, <1>a, Clocks, Bounds
  <2>4. bus.kind = "write" => host_ms' <= FrameTime
    BY <1>7, <1>a, Clocks, Bounds
  <2>5. host_ms <= host_ms'
    BY <1>7, <1>a, Clocks, Bounds
  <2> QED
    BY <2>1, <2>2, <2>3, <2>4, <2>5, Bounds
<1>8. CASE CheckRx
  BY <1>8, <1>0, <1>a, Bounds DEF CheckRx
<1>9. CASE DrainRx
  BY <1>9, <1>0, <1>a, Bounds DEF DrainRx, rxBufferDrain
<1>10. CASE PushByte
  BY <1>10, <1>0, <1>a, Bounds DEF PushByte
<1>11. CASE DeliverFrame
  BY <1>11, <1>0, <1>a, Bounds DEF DeliverFrame, basp_i2c_slave_err_reset
<1>12. CASE EndParse
  BY <1>12, <1>0, <1>a, Bounds DEF EndParse
<1>13. CASE HandleFrame
  BY <1>13, <1>0, <1>a, Bounds DEF HandleFrame, txBufferWriteData
<1>14. CASE WriteHead
  BY <1>14, <1>0, <1>a, Bounds DEF WriteHead, txBufferWriteHead
<1>15. CASE WriteTail
  BY <1>15, <1>0, <1>a, Bounds DEF WriteTail, txBufferWriteTail
<1>16. CASE FinishFrame
  BY <1>16, <1>0, <1>a, Bounds DEF FinishFrame
<1>17. CASE UpdateNotDue
  BY <1>17, <1>0, <1>a, Bounds DEF UpdateNotDue
<1>18. CASE UpdateDeinit
  BY <1>18, <1>0, <1>a, Bounds DEF UpdateDeinit, bsp_i2c_slave_deinit
<1>19. CASE UpdateInitEnable
  BY <1>19, <1>0, <1>a, Bounds DEF UpdateInitEnable, InitEnable
<1>20. CASE UpdateInitFails
  BY <1>20, <1>0, <1>a, Bounds DEF UpdateInitFails, basp_i2c_slave_err_reset
<1>21. CASE UpdateInitClearState
  BY <1>21, <1>0, <1>a, Bounds DEF UpdateInitClearState, InitClearState
<1>22. CASE UpdateInitClearRx
  BY <1>22, <1>0, <1>a, Bounds DEF UpdateInitClearRx, InitClearRx
<1>23. CASE UpdateInitClearTxData
  BY <1>23, <1>0, <1>a, Bounds DEF UpdateInitClearTxData, InitClearTxData
<1>24. CASE UpdateInitClearTxIndexes
  BY <1>24, <1>0, <1>a, Bounds DEF UpdateInitClearTxIndexes, InitClearTxIndexes
<1>25. CASE UpdateInitEnds
  BY <1>25, <1>0, <1>a, Bounds DEF UpdateInitEnds, basp_i2c_slave_err_reset
<1>26. CASE JumpNotDue
  BY <1>26, <1>0, <1>a, Bounds DEF JumpNotDue
<1>27. CASE TakeJump
  BY <1>27, <1>0, <1>a, Bounds DEF TakeJump, bsp_i2c_slave_deinit
<1>28. CASE UNCHANGED vars
  BY <1>28 DEF vars
<1> QED
  BY <1>1, <1>2, <1>3, <1>4, <1>5, <1>6, <1>7, <1>8, <1>9, <1>10, <1>11, <1>12, <1>13, <1>14,
     <1>15, <1>16, <1>17, <1>18, <1>19, <1>20, <1>21, <1>22, <1>23, <1>24, <1>25, <1>26, <1>27,
     <1>28 DEF Next, Bus, SysTick_Handler, MainStep

LEMMA TailOfLastFrame ==
    ASSUME NEW s \in Seq(FrameUnit), s # <<>>, OfLastFrame(s)
    PROVE  OfLastFrame(Tail(s)) /\ Head(s).msg.n = next_frame - 1
<1> DEFINE r == Tail(s)
<1>1. Len(r) = Len(s) - 1 /\ Head(s) = s[1] /\ 1 \in 1 .. Len(s)
  OBVIOUS
<1>2. \A i \in 1 .. Len(r) : i + 1 \in 1 .. Len(s) /\ r[i] = s[i + 1]
  OBVIOUS
<1> HIDE DEF r
<1>3. OfLastFrame(r) /\ Head(s).msg.n = next_frame - 1
  BY <1>1, <1>2 DEF OfLastFrame
<1> QED
  BY <1>3 DEF r

LEMMA FlowPreserved ==
    HostInTime /\ LinkTypes /\ OrderInv /\ BusInv /\ FlowInv /\ [Next]_vars => FlowInv'
<1> SUFFICES ASSUME HostInTime, LinkTypes, OrderInv, BusInv, FlowInv, [Next]_vars PROVE FlowInv'
  OBVIOUS
<1>0. bus = [kind |-> bus.kind, frame |-> bus.frame, done |-> bus.done, got |-> bus.got,
             attached |-> bus.attached]
  BY DEF LinkTypes
<1>a. HostPatient /\ ~HostAborts /\ FrameTime + 2 * MaxLoop + MaxHandle < ReadFrom
  BY DEF HostInTime
<1>b. ReadFrom <= host_ms =>
        /\ ~Handling /\ ~Arrived
        /\ ~(mpc = "parse" /\ local_buffer # <<>>)
  BY <1>a, Bounds DEF BusInv, FlowInv, Arrived, Handling
<1> USE DEF FlowInv, Arriving, Arrived, Abandoned, Handling, driver, host, schedule, main, parser,
            tx, Step
<1>1. ASSUME NEW cmd \in Commands, StartWrite(cmd) PROVE FlowInv'
  <2>1. /\ ~awaiting /\ irq_on /\ bus.kind = "none"
        /\ UNCHANGED <<rx, local_buffer, frame, mpc, loop_ms>>
    BY <1>1, <1>a DEF StartWrite, MayWrite, MatchWrite, Idle
  <2> QED
    BY <2>1
<1>2. CASE WriteByte
  <2>1. /\ bus' = [bus EXCEPT !.done = bus.done + 1] /\ bus.kind = "write"
        /\ UNCHANGED <<local_buffer, frame, mpc, loop_ms, slave_state, irq_on, next_frame,
                       schedule>>
        /\ IF bus.attached THEN ReceiveFull(Unit(bus.frame, bus.done + 1)) ELSE rx' = rx
    BY <1>2 DEF WriteByte, ReceiveFull
  <2>2. Arriving' = Arriving
    BY <2>1, <1>0
  <2>3. CASE bus.attached
    <3> DEFINE e == Unit(bus.frame, bus.done + 1)
    <3>1. rx' \in {rx, Append(rx, e)} /\ rx \in Seq(FrameUnit)
      BY <2>1, <2>3 DEF ReceiveFull, LinkTypes
    <3>2. e.msg.n = next_frame - 1
      BY <2>1 DEF OrderInv, Unit
    <3>3. irq_on /\ Arriving
      BY <2>1, <2>3 DEF BusInv
    <3>4. ~Handling /\ mpc \notin {"clear_state", "clear_rx"} => OfLastFrame(rx)
      BY <3>3 DEF OfLastFrame
    <3>5. OfLastFrame(rx) => OfLastFrame(Append(rx, e))
      BY <3>1, <3>2 DEF OfLastFrame
    <3> HIDE DEF e
    <3> QED
      BY <2>1, <2>2, <3>1, <3>3, <3>4, <3>5 DEF OfLastFrame
  <2>4. CASE ~bus.attached
    BY <2>1, <2>2, <2>4 DEF OfLastFrame
  <2> QED
    BY <2>3, <2>4
<1>3. CASE EndWrite
  <2>1. /\ bus.kind = "write" /\ bus'.kind = "none"
        /\ UNCHANGED <<rx, local_buffer, frame, mpc, loop_ms, irq_on, next_frame, schedule>>
        /\ bus.attached /\ slave_state = "SLAVE_RX" => slave_state' = "SLAVE_RX_DONE"
        /\ ~bus.attached => slave_state' = slave_state
    BY <1>3 DEF EndWrite, Stop, StopDetected, Idle
  <2>2. bus.attached => irq_on /\ slave_state = "SLAVE_RX"
    BY <2>1 DEF BusInv
  <2>3. awaiting /\ host_ms <= FrameTime /\ loop_ms \in Nat /\ host_ms \in Nat
    BY <2>1 DEF BusInv
  <2>4. host_ms <= FrameTime + loop_ms + (IF mpc \in {"check", "drain"} THEN MaxLoop ELSE 0)
    BY <2>3, Bounds
  <2> QED
    BY <2>1, <2>2, <2>3, <2>4 DEF OfLastFrame
<1>4. CASE StartRead
  <2>1. /\ bus.kind = "none" /\ bus'.kind = "read" /\ irq_on /\ ReadFrom <= host_ms
        /\ UNCHANGED <<rx, local_buffer, frame, mpc, irq_on>>
    BY <1>4, <1>a, Bounds DEF StartRead, MayRead, MatchRead, SendByte, Idle, BusInv
  <2> QED
    BY <2>1, <1>b
<1>5. CASE ReadByte
  <2>1. /\ bus.kind = "read" /\ bus'.kind = "read"
        /\ UNCHANGED <<rx, local_buffer, frame, mpc, loop_ms, slave_state, irq_on, next_frame,
                       schedule>>
    BY <1>5, <1>0 DEF ReadByte, TransmitEmpty, SendByte
  <2> QED
    BY <2>1 DEF OfLastFrame
<1>6. CASE EndRead
  <2>1. /\ bus.kind = "read" /\ ReadFrom <= host_ms
        /\ UNCHANGED <<rx, local_buffer, mpc, irq_on>>
        /\ bus.attached \/ slave_state' = slave_state
    BY <1>6 DEF EndRead, Stop, StopDetected, BusInv
  <2>2. bus.attached => irq_on
    BY DEF BusInv
  <2> QED
    BY <2>1, <2>2, <1>b
<1>7. CASE SysTick_Handler
  <2>1. /\ UNCHANGED <<rx, local_buffer, frame, mpc, slave_state, irq_on, next_frame, awaiting,
                       bus>>
        /\ \/ loop_ms' = loop_ms + 1 /\ host_ms' \in {host_ms, host_ms + 1}
           \/ loop_ms' = loop_ms /\ host_ms' = host_ms
    BY <1>7, <1>a, Clocks
  <2>2. loop_ms \in Nat /\ host_ms \in Nat
    BY DEF BusInv
  <2>3. Arrived => Arrived'
    BY <2>1, <2>2, Bounds
  <2>4. mpc = "parse" /\ local_buffer # <<>> => host_ms' <= FrameTime + MaxLoop + loop_ms'
    BY <2>1, <2>2, Bounds
  <2>5. Handling => host_ms' <= FrameTime + 2 * MaxLoop + loop_ms'
    BY <2>1, <2>2, Bounds
  <2> HIDE DEF Arrived
  <2> QED
    BY <2>1, <2>3, <2>4, <2>5 DEF OfLastFrame
<1>8. CASE CheckRx
  BY <1>8, Bounds DEF CheckRx, OfLastFrame, BusInv

<1>9. CASE DrainRx
  <2>1. /\ mpc = "drain" /\ mpc' = "parse" /\ rx' = <<>> /\ local_buffer' = rx
        /\ UNCHANGED <<loop_ms, next_frame, schedule>>
    BY <1>9 DEF DrainRx, rxBufferDrain
  <2>2. rx # <<>> => awaiting /\ OfLastFrame(rx) /\ host_ms <= FrameTime + MaxLoop + loop_ms
    BY <2>1, Bounds DEF BusInv
  <2> QED
    BY <2>1, <2>2 DEF OfLastFrame
<1>10. CASE PushByte
  <2>1. /\ mpc = "parse" /\ local_buffer # <<>> /\ local_buffer' = Tail(local_buffer)
        /\ UNCHANGED <<rx, mpc, loop_ms, slave_state, irq_on, next_frame, awaiting, host_ms, bus>>
    BY <1>10 DEF PushByte
  <2>2. OfLastFrame(Tail(local_buffer)) /\ awaiting /\ host_ms <= FrameTime + MaxLoop + loop_ms
    BY <2>1, TailOfLastFrame DEF LinkTypes
  <2> QED
    BY <2>1, <2>2 DEF OfLastFrame
<1>11. CASE DeliverFrame
  <2>1. /\ mpc = "parse" /\ local_buffer # <<>> /\ frame' = Pushed[1].msg /\ mpc' = "handle"
        /\ Intact /\ loop_ms' = 0 /\ UNCHANGED <<next_frame, awaiting, host_ms>>
    BY <1>11 DEF DeliverFrame
  <2>2. Pushed[1].msg = Head(local_buffer).msg
    BY <2>1, UnitDelivered
  <2>3. Head(local_buffer).msg.n = next_frame - 1
    BY <2>1, TailOfLastFrame DEF LinkTypes
  <2>4. awaiting /\ host_ms <= FrameTime + MaxLoop + loop_ms /\ loop_ms <= MaxLoop
    BY <2>1 DEF BusInv
  <2>5. host_ms <= FrameTime + 2 * MaxLoop + 0
    BY <2>4, Bounds DEF BusInv
  <2> QED
    BY <2>1, <2>2, <2>3, <2>4, <2>5
<1>12. CASE EndParse
  BY <1>12 DEF EndParse, OfLastFrame
<1>13. CASE HandleFrame
  BY <1>13 DEF HandleFrame, txBufferWriteData, OfLastFrame
<1>14. CASE WriteHead
  BY <1>14 DEF WriteHead, txBufferWriteHead, OfLastFrame
<1>15. CASE WriteTail
  BY <1>15 DEF WriteTail, txBufferWriteTail, OfLastFrame
<1>16. CASE FinishFrame
  <2>1. /\ mpc = "written" /\ UNCHANGED <<rx, local_buffer>>
    BY <1>16 DEF FinishFrame
  <2>2. rx = <<>> /\ local_buffer = <<>>
    BY <2>1, NothingLeft
  <2> QED
    BY <1>16, <2>1, <2>2 DEF FinishFrame
<1>17. CASE UpdateNotDue
  BY <1>17 DEF UpdateNotDue, OfLastFrame
<1>18. CASE UpdateDeinit
  <2>1. /\ mpc \notin {"check", "drain"} /\ mpc' \in {"init", "jumped"}
        /\ bus'.kind = bus.kind /\ bus'.attached = FALSE /\ irq_on' = FALSE
        /\ UNCHANGED <<rx, loop_ms, slave_state, next_frame, awaiting, host_ms>>
    BY <1>18, <1>0 DEF UpdateDeinit, bsp_i2c_slave_deinit
  <2>2. ~Handling /\ mpc \notin {"clear_state", "clear_rx"}
    BY <1>18 DEF UpdateDeinit
  <2>3. Arriving => slave_state = "SLAVE_RX"
    BY DEF BusInv
  <2> QED
    BY <2>1, <2>2, <2>3 DEF OfLastFrame
<1>19. CASE UpdateInitEnable
  BY <1>19 DEF UpdateInitEnable, InitEnable, OfLastFrame
<1>20. CASE UpdateInitFails
  BY <1>20 DEF UpdateInitFails, basp_i2c_slave_err_reset, OfLastFrame
<1>21. CASE UpdateInitClearState
  BY <1>21 DEF UpdateInitClearState, InitClearState, OfLastFrame
<1>22. CASE UpdateInitClearRx
  BY <1>22 DEF UpdateInitClearRx, InitClearRx, OfLastFrame
<1>23. CASE UpdateInitClearTxData
  BY <1>23 DEF UpdateInitClearTxData, InitClearTxData, OfLastFrame
<1>24. CASE UpdateInitClearTxIndexes
  BY <1>24 DEF UpdateInitClearTxIndexes, InitClearTxIndexes, OfLastFrame
<1>25. CASE UpdateInitEnds
  BY <1>25 DEF UpdateInitEnds, basp_i2c_slave_err_reset, OfLastFrame
<1>26. CASE JumpNotDue
  <2>1. /\ mpc = "jump" /\ mpc' = "check" /\ loop_ms' = 0
        /\ UNCHANGED <<rx, slave_state, irq_on, next_frame, awaiting, host_ms, bus>>
    BY <1>26 DEF JumpNotDue
  <2>2. Arrived => host_ms <= FrameTime + 0 + MaxLoop
    BY <2>1, Bounds DEF BusInv
  <2> QED
    BY <2>1, <2>2 DEF OfLastFrame
<1>27. CASE TakeJump
  <2>1. /\ mpc \notin {"check", "drain"} /\ mpc' \in {"init", "jumped"}
        /\ bus'.kind = bus.kind /\ bus'.attached = FALSE /\ irq_on' = FALSE
        /\ UNCHANGED <<rx, loop_ms, slave_state, next_frame, awaiting, host_ms>>
    BY <1>27, <1>0 DEF TakeJump, bsp_i2c_slave_deinit
  <2>2. ~Handling /\ mpc \notin {"clear_state", "clear_rx"}
    BY <1>27 DEF TakeJump
  <2>3. Arriving => slave_state = "SLAVE_RX"
    BY DEF BusInv
  <2> QED
    BY <2>1, <2>2, <2>3 DEF OfLastFrame
<1>28. CASE UNCHANGED vars
  BY <1>28 DEF vars, OfLastFrame
<1> QED
  BY <1>1, <1>2, <1>3, <1>4, <1>5, <1>6, <1>7, <1>8, <1>9, <1>10, <1>11, <1>12, <1>13, <1>14,
     <1>15, <1>16, <1>17, <1>18, <1>19, <1>20, <1>21, <1>22, <1>23, <1>24, <1>25, <1>26, <1>27,
     <1>28 DEF Next, Bus, SysTick_Handler, MainStep

LEMMA CountPreserved ==
    HostInTime /\ LinkTypes /\ OrderInv /\ BusInv /\ CountInv /\ [Next]_vars => CountInv'
<1> SUFFICES ASSUME HostInTime, LinkTypes, OrderInv, BusInv, CountInv, [Next]_vars PROVE CountInv'
  OBVIOUS
<1>a. HostPatient /\ ReadUntil < ERR_LIMIT
  BY DEF HostInTime
<1>b. frame.n \in Nat /\ next_frame \in Nat /\ frame.n < next_frame
  BY FrameNumber DEF OrderInv
<1>c. host_ms \in Nat /\ err_count \in Nat /\ tick \in Nat
  BY DEF BusInv
<1> USE DEF CountInv, InitSteps, driver, host, schedule, main, parser, tx, Step
<1>1. ASSUME NEW cmd \in Commands, StartWrite(cmd) PROVE CountInv'
  <2>1. next_frame' = next_frame + 1 /\ frame' = frame
    BY <1>1 DEF StartWrite
  <2> QED
    BY <2>1, <1>b
<1>2. CASE WriteByte
  BY <1>2, <1>c DEF WriteByte, ReceiveFull
<1>3. CASE EndWrite
  <2>1. /\ UNCHANGED <<awaiting, frame, next_frame, host_ms, tick, mpc>>
        /\ err_count' \in {0, err_count}
    BY <1>3 DEF EndWrite, Stop, StopDetected
  <2> QED
    BY <2>1, <1>c
<1>4. CASE StartRead
  BY <1>4, <1>c DEF StartRead, MayRead, MatchRead, SendByte, Idle
<1>5. CASE ReadByte
  BY <1>5, <1>c DEF ReadByte, TransmitEmpty, SendByte
<1>6. CASE EndRead
  <2>1. awaiting' = FALSE
    BY <1>6 DEF EndRead
  <2> QED
    BY <2>1
<1>7. CASE SysTick_Handler
  <2>1. /\ UNCHANGED <<awaiting, frame, next_frame, mpc>>
        /\ \/ /\ host_ms' = (IF host_ms <= NextUntil THEN host_ms + 1 ELSE host_ms)
              /\ tick' = err_count /\ err_count' = err_count
           \/ /\ host_ms' = host_ms /\ tick # NoTick /\ tick' = NoTick
              /\ err_count' = (IF tick < ERR_LIMIT THEN tick + 1 ELSE tick)
    BY <1>7, <1>a, Clocks
  <2> QED
    BY <2>1, <1>c, Bounds
<1>8. CASE CheckRx
  BY <1>8, <1>c DEF CheckRx
<1>9. CASE DrainRx
  BY <1>9, <1>c DEF DrainRx, rxBufferDrain
<1>10. CASE PushByte
  BY <1>10, <1>c DEF PushByte
<1>11. CASE DeliverFrame
  <2>1. mpc' = "handle" /\ err_count' = 0 /\ tick' = NoTick /\ host_ms' = host_ms
    BY <1>11 DEF DeliverFrame, basp_i2c_slave_err_reset
  <2> QED
    BY <2>1, <1>c
<1>12. CASE EndParse
  BY <1>12, <1>c DEF EndParse
<1>13. CASE HandleFrame
  BY <1>13, <1>c DEF HandleFrame, txBufferWriteData
<1>14. CASE WriteHead
  BY <1>14, <1>c DEF WriteHead, txBufferWriteHead
<1>15. CASE WriteTail
  BY <1>15, <1>c DEF WriteTail, txBufferWriteTail
<1>16. CASE FinishFrame
  BY <1>16, <1>c DEF FinishFrame
<1>17. CASE UpdateNotDue
  BY <1>17, <1>c DEF UpdateNotDue
<1>18. CASE UpdateDeinit
  <2>1. err_count >= ERR_LIMIT /\ UNCHANGED <<awaiting, frame, next_frame, host_ms>>
    BY <1>18 DEF UpdateDeinit
  <2> QED
    BY <2>1, <1>a, <1>c, Bounds
<1>19. CASE UpdateInitEnable
  BY <1>19, <1>c DEF UpdateInitEnable, InitEnable
<1>20. CASE UpdateInitFails
  BY <1>20, <1>c DEF UpdateInitFails, basp_i2c_slave_err_reset
<1>21. CASE UpdateInitClearState
  BY <1>21, <1>c DEF UpdateInitClearState, InitClearState
<1>22. CASE UpdateInitClearRx
  BY <1>22, <1>c DEF UpdateInitClearRx, InitClearRx
<1>23. CASE UpdateInitClearTxData
  BY <1>23, <1>c DEF UpdateInitClearTxData, InitClearTxData
<1>24. CASE UpdateInitClearTxIndexes
  BY <1>24, <1>c DEF UpdateInitClearTxIndexes, InitClearTxIndexes
<1>25. CASE UpdateInitEnds
  BY <1>25, <1>c DEF UpdateInitEnds, basp_i2c_slave_err_reset
<1>26. CASE JumpNotDue
  BY <1>26, <1>c DEF JumpNotDue
<1>27. CASE TakeJump
  BY <1>27, <1>c DEF TakeJump, bsp_i2c_slave_deinit
<1>28. CASE UNCHANGED vars
  BY <1>28 DEF vars
<1> QED
  BY <1>1, <1>2, <1>3, <1>4, <1>5, <1>6, <1>7, <1>8, <1>9, <1>10, <1>11, <1>12, <1>13, <1>14,
     <1>15, <1>16, <1>17, <1>18, <1>19, <1>20, <1>21, <1>22, <1>23, <1>24, <1>25, <1>26, <1>27,
     <1>28 DEF Next, Bus, SysTick_Handler, MainStep

LEMMA ArmedPreserved ==
    HostInTime /\ LinkTypes /\ BusInv /\ FlowInv /\ ArmedInv /\ [Next]_vars => ArmedInv'
<1> SUFFICES ASSUME HostInTime, LinkTypes, BusInv, FlowInv, ArmedInv, [Next]_vars PROVE ArmedInv'
  OBVIOUS
<1>a. HostPatient /\ FrameTime + 2 * MaxLoop + MaxHandle < ReadFrom
  BY DEF HostInTime
<1>b. Handling => awaiting /\ host_ms < ReadFrom /\ bus.kind # "read"
  BY <1>a, Bounds DEF BusInv, FlowInv, Handling
<1>c. armed \/ mpc \in {"write_tail", "written"} => Handling
  BY DEF ArmedInv, Handling
<1> USE DEF ArmedInv, driver, host, schedule, main, parser, tx, Step
<1>1. ASSUME NEW cmd \in Commands, StartWrite(cmd) PROVE ArmedInv'
  BY <1>1 DEF StartWrite, MayWrite, MatchWrite, Idle, Response, Ack
<1>2. CASE WriteByte
  BY <1>2 DEF WriteByte, ReceiveFull, Response, Ack
<1>3. CASE EndWrite
  <2>1. /\ UNCHANGED <<armed, mpc, frame, tx_data, tx_tail>> /\ bus.kind = "write"
        /\ tx_head' = tx_head \/ (bus.attached /\ slave_state = "SLAVE_TX")
    BY <1>3 DEF EndWrite, Stop, StopDetected
  <2>2. bus.attached => slave_state = "SLAVE_RX"
    BY <2>1 DEF BusInv
  <2> QED
    BY <2>1, <2>2 DEF Response, Ack
<1>4. CASE StartRead
  <2>1. awaiting => ReadFrom <= host_ms
    BY <1>4, <1>a, Bounds DEF StartRead, MayRead
  <2>2. awaiting /\ host_ms \in Nat
    BY <1>4, <1>a DEF StartRead, MayRead, BusInv
  <2>3. ~Handling
    BY <2>1, <2>2, <1>b, Bounds
  <2>4. UNCHANGED <<armed, mpc>>
    BY <1>4 DEF StartRead
  <2> QED
    BY <2>3, <2>4, <1>c
<1>5. CASE ReadByte
  <2>1. bus.kind = "read" /\ UNCHANGED <<armed, mpc>>
    BY <1>5 DEF ReadByte
  <2> QED
    BY <2>1, <1>b, <1>c
<1>6. CASE EndRead
  <2>1. bus.kind = "read" /\ UNCHANGED <<armed, mpc>>
    BY <1>6 DEF EndRead
  <2> QED
    BY <2>1, <1>b, <1>c
<1>7. CASE SysTick_Handler
  <2>1. UNCHANGED <<armed, mpc, frame, tx_data, tx_head, tx_tail>>
    BY <1>7, <1>a, Clocks
  <2> QED
    BY <2>1 DEF Response, Ack
<1>8. CASE CheckRx
  BY <1>8 DEF CheckRx, Response, Ack
<1>9. CASE DrainRx
  BY <1>9 DEF DrainRx, rxBufferDrain, Response, Ack
<1>10. CASE PushByte
  BY <1>10 DEF PushByte, Response, Ack
<1>11. CASE DeliverFrame
  BY <1>11 DEF DeliverFrame, basp_i2c_slave_err_reset, Response, Ack
<1>12. CASE EndParse
  BY <1>12 DEF EndParse, Response, Ack
<1>13. CASE HandleFrame
  <2>1. PICK ok \in (IF frame.cmd = "JUMP" THEN BOOLEAN ELSE {TRUE}) :
          /\ armed' = (frame.cmd = "JUMP" /\ ok)
          /\ tx_data' = Response([n |-> frame.n, cmd |-> frame.cmd, ok |-> ok])
    BY <1>13 DEF HandleFrame, txBufferWriteData
  <2>2. mpc' = "write_head" /\ frame' = frame
    BY <1>13 DEF HandleFrame
  <2>3. armed' => frame.cmd = "JUMP" /\ ok = TRUE
    BY <2>1, Zenon
  <2>4. armed' => tx_data' = Response(Ack(frame))
    BY <2>1, <2>3 DEF Ack
  <2> QED
    BY <2>2, <2>3, <2>4 DEF Response, Ack
<1>14. CASE WriteHead
  BY <1>14 DEF WriteHead, txBufferWriteHead, Response, Ack
<1>15. CASE WriteTail
  BY <1>15 DEF WriteTail, txBufferWriteTail, Response, Ack
<1>16. CASE FinishFrame
  BY <1>16 DEF FinishFrame, Response, Ack
<1>17. CASE UpdateNotDue
  BY <1>17 DEF UpdateNotDue, Response, Ack
<1>18. CASE UpdateDeinit
  BY <1>18 DEF UpdateDeinit, bsp_i2c_slave_deinit, Response, Ack
<1>19. CASE UpdateInitEnable
  BY <1>19 DEF UpdateInitEnable, InitEnable, Response, Ack
<1>20. CASE UpdateInitFails
  BY <1>20 DEF UpdateInitFails, basp_i2c_slave_err_reset, Response, Ack
<1>21. CASE UpdateInitClearState
  BY <1>21 DEF UpdateInitClearState, InitClearState, Response, Ack
<1>22. CASE UpdateInitClearRx
  BY <1>22 DEF UpdateInitClearRx, InitClearRx, Response, Ack
<1>23. CASE UpdateInitClearTxData
  BY <1>23 DEF UpdateInitClearTxData, InitClearTxData, Response, Ack
<1>24. CASE UpdateInitClearTxIndexes
  BY <1>24 DEF UpdateInitClearTxIndexes, InitClearTxIndexes, Response, Ack
<1>25. CASE UpdateInitEnds
  BY <1>25 DEF UpdateInitEnds, basp_i2c_slave_err_reset, Response, Ack
<1>26. CASE JumpNotDue
  BY <1>26 DEF JumpNotDue, Response, Ack
<1>27. CASE TakeJump
  BY <1>27 DEF TakeJump, bsp_i2c_slave_deinit, Response, Ack
<1>28. CASE UNCHANGED vars
  BY <1>28 DEF vars, Response, Ack
<1> QED
  BY <1>1, <1>2, <1>3, <1>4, <1>5, <1>6, <1>7, <1>8, <1>9, <1>10, <1>11, <1>12, <1>13, <1>14,
     <1>15, <1>16, <1>17, <1>18, <1>19, <1>20, <1>21, <1>22, <1>23, <1>24, <1>25, <1>26, <1>27,
     <1>28 DEF Next, Bus, SysTick_Handler, MainStep

\* One more unit of an answer.
LEMMA AnswerGrows ==
    ASSUME NEW a, NEW n \in Nat
    PROVE  [k \in 1 .. n |-> Unit(a, k)] \o <<Unit(a, n + 1)>> = [k \in 1 .. n + 1 |-> Unit(a, k)]
<1> DEFINE U == {Unit(a, k) : k \in Nat}
           s == [k \in 1 .. n |-> Unit(a, k)]
           e == Unit(a, n + 1)
           t == [k \in 1 .. n + 1 |-> Unit(a, k)]
<1>1. \A k \in Nat : Unit(a, k) \in U
  OBVIOUS
<1> HIDE DEF U
<1>2. s \in Seq(U) /\ t \in Seq(U) /\ e \in U
  BY <1>1
<1>3. Len(s) = n /\ Len(t) = n + 1
  OBVIOUS
<1>4. \A k \in 1 .. n : s[k] = t[k]
  OBVIOUS
<1>5. t[n + 1] = e
  OBVIOUS
<1> HIDE DEF s, e, t
<1>6. s \o <<e>> \in Seq(U) /\ Len(s \o <<e>>) = Len(t)
  BY <1>2, <1>3
<1>7. ASSUME NEW k \in 1 .. n + 1 PROVE (s \o <<e>>)[k] = t[k]
  <2>1. CASE k \in 1 .. n
    BY <1>2, <1>3, <1>4, <2>1
  <2>2. CASE k = n + 1
    BY <1>2, <1>3, <1>5, <2>2
  <2>3. k \in 1 .. n \/ k = n + 1
    OBVIOUS
  <2> QED
    BY <2>1, <2>2, <2>3
<1>8. s \o <<e>> = t
  BY <1>2, <1>3, <1>6, <1>7, SeqEqual
<1> QED
  BY <1>8 DEF s, e, t

\* What the host gets from a response whose bytes are all there.
LEMMA NextUnitSent ==
    ASSUME NEW a, NEW sent, tx_data = Response(a), tx_head = TX_LENGTH,
           tx_tail \in Nat, tx_tail < TX_LENGTH, SendByte(sent)
    PROVE  sent = <<Unit(a, tx_tail + 1)>> /\ tx_tail' = tx_tail + 1
<1>1. txBufferAvailable
  BY Bounds DEF txBufferAvailable
<1>2. tx_tail + 1 \in 1 .. TX_LENGTH
  BY Bounds
<1>3. tx_data[tx_tail + 1] = Unit(a, tx_tail + 1)
  BY <1>2 DEF Response
<1> QED
  BY <1>1, <1>3 DEF SendByte

LEMMA WaitPreserved ==
    ASSUME HostInTime, LinkTypes, OrderInv, BusInv, FlowInv, CountInv, ArmedInv, WaitInv,
           [Next]_vars
    PROVE  WaitInv'
<1>0. bus = [kind |-> bus.kind, frame |-> bus.frame, done |-> bus.done, got |-> bus.got,
             attached |-> bus.attached]
  BY DEF LinkTypes
<1>a. HostPatient /\ ~HostAborts /\ ReadUntil < ERR_LIMIT
  BY DEF HostInTime
<1>b. frame.n \in Nat /\ next_frame \in Nat /\ frame.n < next_frame
  BY FrameNumber DEF OrderInv
<1>c. host_ms \in Nat /\ err_count \in Nat
  BY DEF BusInv
<1> USE DEF driver, host, schedule, main, parser, tx, Step
<1>d. Accepted => Accepted'
  <2>1. acked \subseteq acked'
    BY DEF Next, Bus, SysTick_Handler, MainStep, vars, StartWrite, WriteByte, EndWrite, StartRead,
      ReadByte, EndRead, CheckRx, DrainRx, PushByte, EndParse, HandleFrame, WriteHead, WriteTail,
      FinishFrame, UpdateNotDue, UpdateDeinit, UpdateInitEnable, UpdateInitFails,
      UpdateInitClearState, UpdateInitClearRx, UpdateInitClearTxData, UpdateInitClearTxIndexes,
      UpdateInitEnds, JumpNotDue, TakeJump, DeliverFrame
  <2> QED
    BY <2>1 DEF Accepted
<1> SUFFICES ASSUME ~Accepted, jump_requested' PROVE Accepted' \/ Waiting'
  BY <1>d DEF WaitInv
<1>f. ASSUME FinishFrame, ~jump_requested PROVE Waiting'
  <2>1. /\ armed /\ mpc = "written" /\ mpc' = "parse" /\ tx_head = TX_LENGTH
        /\ UNCHANGED <<irq_on, tx_data, tx_head, tx_tail, frame, bus, next_frame, awaiting,
                       host_ms>>
    BY <1>f DEF FinishFrame
  <2>2. frame.cmd = "JUMP" /\ tx_data = Response(Ack(frame)) /\ tx_tail = 0
    BY <2>1 DEF ArmedInv
  <2>3. awaiting /\ frame.n = next_frame - 1 /\ bus.kind # "read"
    <3>1. /\ awaiting /\ frame.n = next_frame - 1
          /\ host_ms <= FrameTime + 2 * MaxLoop + loop_ms /\ loop_ms <= MaxHandle
      BY <2>1 DEF FlowInv, BusInv, Handling
    <3>2. host_ms < ReadFrom
      BY <1>c, <3>1, Bounds DEF HostInTime, BusInv
    <3> QED
      BY <1>c, <3>1, <3>2, Bounds DEF BusInv
  <2>4. frame \in Frame
    BY <2>2 DEF LinkTypes, NoFrame
  <2> QED
    BY <2>1, <2>2, <2>3, <2>4 DEF Waiting, Handling, Response, Ack
<1>g. ~FinishFrame => jump_requested
  BY DEF Next, Bus, SysTick_Handler, MainStep, vars, StartWrite, WriteByte, EndWrite, StartRead,
    ReadByte, EndRead, CheckRx, DrainRx, PushByte, EndParse, HandleFrame, WriteHead, WriteTail,
    UpdateNotDue, UpdateDeinit, UpdateInitEnable, UpdateInitFails, UpdateInitClearState,
    UpdateInitClearRx, UpdateInitClearTxData, UpdateInitClearTxIndexes, UpdateInitEnds,
    JumpNotDue, TakeJump, DeliverFrame
<1> SUFFICES ASSUME Waiting PROVE Accepted' \/ Waiting'
  BY <1>f, <1>g DEF WaitInv
<1>h. mpc \in InitSteps => ~(host_ms <= ReadUntil)
  BY DEF CountInv, Waiting
<1>i. Ack(frame) \in Answer
  BY DEF Waiting, Frame, Answer, Ack
<1> USE DEF Waiting, Handling
<1>1. ASSUME NEW cmd \in Commands, StartWrite(cmd) PROVE FALSE
  BY <1>1, <1>a DEF StartWrite, MayWrite
<1>2. CASE WriteByte
  <2>1. /\ UNCHANGED <<irq_on, tx_data, tx_head, tx_tail, frame, mpc, next_frame, awaiting,
                       host_ms>>
        /\ bus.kind = "write" /\ bus'.kind = "write"
    BY <1>2, <1>0 DEF WriteByte, ReceiveFull
  <2> QED
    BY <2>1 DEF Response, Ack
<1>3. CASE EndWrite
  <2>1. /\ UNCHANGED <<irq_on, tx_data, tx_tail, frame, mpc, next_frame, awaiting, host_ms>>
        /\ bus.kind = "write" /\ bus'.kind = "none"
        /\ tx_head' = tx_head \/ (bus.attached /\ slave_state = "SLAVE_TX")
    BY <1>3 DEF EndWrite, Stop, StopDetected, Idle
  <2>2. bus.attached => slave_state = "SLAVE_RX"
    BY <2>1 DEF BusInv
  <2> QED
    BY <2>1, <2>2 DEF Response, Ack
<1>4. CASE StartRead
  <2>1. PICK sent : /\ MatchRead(sent)
                    /\ bus' = [Idle EXCEPT !.kind = "read", !.attached = TRUE, !.done = 1,
                               !.got = sent]
    BY <1>4 DEF StartRead
  <2>2. /\ irq_on /\ bus.kind = "none" /\ host_ms <= ReadUntil
        /\ UNCHANGED <<irq_on, tx_data, tx_head, frame, mpc, next_frame, awaiting, host_ms>>
        /\ slave_state' = "SLAVE_TX"
    BY <1>4, <1>a, <2>1 DEF StartRead, MayRead, MatchRead, SendByte, Idle
  <2>3. tx_data = Response(Ack(frame)) /\ tx_head = TX_LENGTH /\ tx_tail = 0
    BY <2>2
  <2>4. sent = <<Unit(Ack(frame), 0 + 1)>> /\ tx_tail' = 0 + 1
    BY <2>1, <2>3, Bounds, NextUnitSent DEF MatchRead
  <2>5. /\ bus'.kind = "read" /\ bus'.attached = TRUE /\ bus'.done = 1
        /\ bus'.got = <<Unit(Ack(frame), 1)>>
    BY <2>1, <2>4 DEF Idle
  <2>6. bus'.got = [k \in 1 .. 1 |-> Unit(Ack(frame), k)]
    BY <2>5
  <2>7. 1 \in 1 .. TX_LENGTH
    BY Bounds
  <2>8. /\ frame' \in Frame /\ frame'.cmd = "JUMP" /\ frame'.n = next_frame' - 1
        /\ awaiting' /\ ~Handling' /\ Ack(frame)' = Ack(frame)
    BY <2>2 DEF Ack
  <2>9. tx_data' = Response(Ack(frame)') /\ tx_head' = TX_LENGTH
    BY <2>2, <2>3, <2>8 DEF Response
  <2>10. tx_tail' = bus'.done
    BY <2>4, <2>5
  <2>11. bus'.done \in 1 .. TX_LENGTH
    BY <2>5, <2>7
  <2>12. bus'.got = [k \in 1 .. bus'.done |-> Unit(Ack(frame)', k)]
    BY <2>5, <2>6, <2>8
  <2>13. irq_on' /\ host_ms' <= ReadUntil /\ bus'.attached /\ slave_state' = "SLAVE_TX"
    BY <2>2, <2>5
  <2>14. Ack(frame)' = Ack(frame')
    BY DEF Ack
  <2> QED
    BY <2>5, <2>8, <2>9, <2>10, <2>11, <2>12, <2>13, <2>14
<1>5. CASE ReadByte
  <2>1. /\ bus.kind = "read" /\ bus.done < TX_LENGTH
        /\ UNCHANGED <<irq_on, tx_data, tx_head, slave_state, frame, mpc, next_frame, awaiting,
                       host_ms>>
    BY <1>5 DEF ReadByte, TransmitEmpty, SendByte
  <2>2. /\ irq_on /\ host_ms <= ReadUntil /\ bus.attached /\ slave_state = "SLAVE_TX"
        /\ bus.done \in 1 .. TX_LENGTH /\ tx_tail = bus.done
        /\ bus.got = [k \in 1 .. bus.done |-> Unit(Ack(frame), k)]
        /\ tx_data = Response(Ack(frame)) /\ tx_head = TX_LENGTH
    BY <2>1
  <2>3. PICK sent : /\ TransmitEmpty(sent)
                    /\ bus' = [bus EXCEPT !.done = bus.done + 1, !.got = bus.got \o sent]
    BY <1>5, <2>2 DEF ReadByte
  <2>4. sent = <<Unit(Ack(frame), bus.done + 1)>> /\ tx_tail' = bus.done + 1
    BY <2>1, <2>2, <2>3, Bounds, NextUnitSent DEF TransmitEmpty
  <2>5. /\ bus'.kind = "read" /\ bus'.attached /\ bus'.done = bus.done + 1
        /\ bus'.got = bus.got \o <<Unit(Ack(frame), bus.done + 1)>>
    BY <1>0, <2>1, <2>2, <2>3, <2>4
  <2>6. bus'.got = [k \in 1 .. bus.done + 1 |-> Unit(Ack(frame), k)]
    BY <2>2, <2>5, AnswerGrows, Bounds
  <2>7. bus.done + 1 \in 1 .. TX_LENGTH
    BY <2>1, <2>2, Bounds
  <2> QED
    BY <2>1, <2>2, <2>4, <2>5, <2>6, <2>7 DEF Response, Ack
<1>6. CASE EndRead
  <2>1. /\ bus.kind = "read" /\ bus.done = TX_LENGTH
        /\ acked' = acked \cup {a \in Answer : HostPatient /\ bus.got = Response(a)}
    BY <1>6, <1>a DEF EndRead
  <2>2. bus.got = Response(Ack(frame))
    BY <2>1 DEF Response
  <2>3. Ack(frame) \in acked'
    BY <1>a, <1>i, <2>1, <2>2
  <2> QED
    BY <2>3 DEF Accepted, Ack
<1>7. CASE SysTick_Handler
  <2>1. /\ UNCHANGED <<irq_on, slave_state, tx_data, tx_head, tx_tail, bus, frame, next_frame,
                         awaiting, mpc>>
        /\ host_ms <= host_ms' /\ host_ms' \in {host_ms, host_ms + 1}
        /\ irq_on /\ host_ms = ReadUntil => host_ms' = host_ms
    BY <1>7, <1>a, <1>c, Clocks
  <2> HIDE DEF Handling
  <2>2. irq_on /\ host_ms <= ReadUntil => host_ms' <= ReadUntil
    BY <1>c, <2>1, Bounds
  <2>3. host_ms' <= ReadUntil => host_ms <= ReadUntil
    BY <1>c, <2>1, Bounds
  <2> QED
    BY <2>1, <2>2, <2>3 DEF Handling, Response, Ack
<1>8. CASE CheckRx
  BY <1>8 DEF CheckRx, Response, Ack
<1>9. CASE DrainRx
  BY <1>9 DEF DrainRx, rxBufferDrain, Response, Ack
<1>10. CASE PushByte
  BY <1>10 DEF PushByte, Response, Ack
<1>11. CASE DeliverFrame
  <2>1. local_buffer # <<>>
    BY <1>11 DEF DeliverFrame
  <2> QED
    BY <2>1, NothingLeft
<1>12. CASE EndParse
  BY <1>12 DEF EndParse, Response, Ack
<1>13. CASE HandleFrame
  BY <1>13 DEF HandleFrame, txBufferWriteData, Response, Ack
<1>14. CASE WriteHead
  BY <1>14 DEF WriteHead, txBufferWriteHead, Response, Ack
<1>15. CASE WriteTail
  BY <1>15 DEF WriteTail, txBufferWriteTail, Response, Ack
<1>16. CASE FinishFrame
  BY <1>16 DEF FinishFrame, Response, Ack
<1>17. CASE UpdateNotDue
  BY <1>17 DEF UpdateNotDue, Response, Ack
<1>18. CASE UpdateDeinit
  <2>1. err_count >= ERR_LIMIT
    BY <1>18 DEF UpdateDeinit
  <2>2. ~(host_ms <= ReadUntil)
    BY <1>a, <1>c, <2>1, Bounds DEF CountInv
  <2>3. /\ bus'.kind = bus.kind /\ UNCHANGED <<frame, next_frame, awaiting, host_ms>>
        /\ mpc' = "init"
    BY <1>18, <1>0 DEF UpdateDeinit
  <2> QED
    BY <2>2, <2>3
<1>19. CASE UpdateInitEnable
  <2>1. ~(host_ms <= ReadUntil) /\ UNCHANGED <<bus, frame, next_frame, awaiting, host_ms>>
        /\ mpc' \in InitSteps \cup {"jump"}
    BY <1>19, <1>h DEF UpdateInitEnable, InitSteps
  <2> QED
    BY <2>1 DEF InitSteps
<1>20. CASE UpdateInitFails
  <2>1. ~(host_ms <= ReadUntil) /\ UNCHANGED <<bus, frame, next_frame, awaiting, host_ms>>
        /\ mpc' \in InitSteps \cup {"jump"}
    BY <1>20, <1>h DEF UpdateInitFails, InitSteps
  <2> QED
    BY <2>1 DEF InitSteps
<1>21. CASE UpdateInitClearState
  <2>1. ~(host_ms <= ReadUntil) /\ UNCHANGED <<bus, frame, next_frame, awaiting, host_ms>>
        /\ mpc' \in InitSteps \cup {"jump"}
    BY <1>21, <1>h DEF UpdateInitClearState, InitSteps
  <2> QED
    BY <2>1 DEF InitSteps
<1>22. CASE UpdateInitClearRx
  <2>1. ~(host_ms <= ReadUntil) /\ UNCHANGED <<bus, frame, next_frame, awaiting, host_ms>>
        /\ mpc' \in InitSteps \cup {"jump"}
    BY <1>22, <1>h DEF UpdateInitClearRx, InitSteps
  <2> QED
    BY <2>1 DEF InitSteps
<1>23. CASE UpdateInitClearTxData
  <2>1. ~(host_ms <= ReadUntil) /\ UNCHANGED <<bus, frame, next_frame, awaiting, host_ms>>
        /\ mpc' \in InitSteps \cup {"jump"}
    BY <1>23, <1>h DEF UpdateInitClearTxData, InitSteps
  <2> QED
    BY <2>1 DEF InitSteps
<1>24. CASE UpdateInitClearTxIndexes
  <2>1. ~(host_ms <= ReadUntil) /\ UNCHANGED <<bus, frame, next_frame, awaiting, host_ms>>
        /\ mpc' \in InitSteps \cup {"jump"}
    BY <1>24, <1>h DEF UpdateInitClearTxIndexes, InitSteps
  <2> QED
    BY <2>1 DEF InitSteps
<1>25. CASE UpdateInitEnds
  <2>1. ~(host_ms <= ReadUntil) /\ UNCHANGED <<bus, frame, next_frame, awaiting, host_ms>>
        /\ mpc' \in InitSteps \cup {"jump"}
    BY <1>25, <1>h DEF UpdateInitEnds, InitSteps
  <2> QED
    BY <2>1 DEF InitSteps
<1>26. CASE JumpNotDue
  BY <1>26 DEF JumpNotDue, Response, Ack
<1>27. CASE TakeJump
  BY <1>27 DEF TakeJump
<1>28. CASE UNCHANGED vars
  BY <1>28 DEF vars, Response, Ack
<1> QED
  BY <1>1, <1>2, <1>3, <1>4, <1>5, <1>6, <1>7, <1>8, <1>9, <1>10, <1>11, <1>12, <1>13, <1>14,
     <1>15, <1>16, <1>17, <1>18, <1>19, <1>20, <1>21, <1>22, <1>23, <1>24, <1>25, <1>26, <1>27,
     <1>28 DEF Next, Bus, SysTick_Handler, MainStep

\* A patient host has read the ACK that accepts a JUMP when the jump is taken:
\* for every length of frames and responses, every bound on the times of host
\* and main loop of which the processing delay covers the way to the answer,
\* and the limit the way to the read, and wherever the link is re-initialised.
\* The findings of the early and of the late read break one bound each.
THEOREM JumpsAfterItsAck ==
    ASSUME HostInTime
    PROVE  Spec => AckReadBeforeJump
<1> DEFINE PatientInv == LinkTypes /\ ReadInv /\ OrderInv /\ TimedInv
<1>1. Init => PatientInv
  <2> SUFFICES ASSUME Init PROVE TimedInv
    BY InitialState
  <2>1. /\ bus.kind = "none" /\ bus.attached = FALSE /\ awaiting = FALSE /\ mpc = "check"
        /\ loop_ms = 0 /\ host_ms = 0 /\ err_count = 0 /\ tick = NoTick /\ rx = <<>>
        /\ armed = FALSE /\ jump_requested = FALSE
    BY DEF Init, DriverInit, Idle
  <2>2. BusInv
    BY <2>1, Bounds DEF BusInv, Handling, NoTick
  <2> QED
    BY <2>1, <2>2 DEF TimedInv, FlowInv, CountInv, ArmedInv, WaitInv, Handling
<1>2. PatientInv /\ [Next]_vars => PatientInv'
  BY TypesPreserved, ReadPreserved, OrderPreserved, BusPreserved, FlowPreserved, CountPreserved,
     ArmedPreserved, WaitPreserved DEF TimedInv
<1>3. PatientInv /\ [Next]_vars => [Jumps => \E a \in acked : a.cmd = "JUMP" /\ a.ok]_vars
  <2> SUFFICES ASSUME BusInv, WaitInv, [Next]_vars, Jumps PROVE Accepted
    BY DEF TimedInv, Accepted
  <2>1. TakeJump
    BY OnlyTakeJump
  <2> QED
    BY <2>1 DEF TakeJump, WaitInv, Waiting, BusInv
<1> QED
  BY <1>1, <1>2, <1>3, PTL DEF Spec, AckReadBeforeJump
=============================================================================
