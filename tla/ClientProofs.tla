---------------------------- MODULE ClientProofs ----------------------------
(***************************************************************************)
(* The two clients whose calls share state with each other: the            *)
(* asynchronous logger, which loses no record, keeps their order, and      *)
(* means what it says when it acknowledges a flush or closes `done', for   *)
(* every number of callers, buffer depth and batch size, and so implements *)
(* AuditPipe; and the session cache of the socket client, for every number *)
(* of calls, identities and sessions, on one event loop and in threads.    *)
(***************************************************************************)
EXTENDS AsyncLogger, RuntimeSocket, SequenceTheorems, TLAPS

-----------------------------------------------------------------------------
(* The asynchronous logger *)

(* What the sequence operations of the logger do to the set of records in  *)
(* a queue.                                                                *)
LEMMA RangeAppend ==
    ASSUME NEW S, NEW s \in Seq(S), NEW e \in S
    PROVE  Range(Append(s, e)) = Range(s) \cup {e}
<1>1. Append(s, e) = s \o <<e>> /\ <<e>> \in Seq(S)
  BY AppendIsConcat
<1>2. Range(<<e>>) = {e}
  BY DEF Range
<1>3. Range(s \o <<e>>) = Range(s) \cup Range(<<e>>)
  BY <1>1, RangeConcatenation, ZenonT(60)
<1>. QED  BY <1>1, <1>2, <1>3, Zenon

LEMMA RangeEmpty == Range(<<>>) = {}
BY DEF Range

LEMMA RangeHeadTail ==
    ASSUME NEW S, NEW s \in Seq(S), s # <<>>
    PROVE  /\ Head(s) \in S /\ Tail(s) \in Seq(S)
           /\ s = <<Head(s)>> \o Tail(s)
           /\ Range(s) = {Head(s)} \cup Range(Tail(s))
<1>1. Head(s) \in S /\ Tail(s) \in Seq(S) /\ <<Head(s)>> \in Seq(S)
  BY HeadTailProperties
<1>2. s = <<Head(s)>> \o Tail(s)
  BY <1>1, HeadTailProperties, SeqEqual, ConcatProperties
<1>3. Range(<<Head(s)>>) = {Head(s)}
  BY DEF Range
<1>4. Range(<<Head(s)>> \o Tail(s)) = Range(<<Head(s)>>) \cup Range(Tail(s))
  BY <1>1, RangeConcatenation, ZenonT(60)
<1>. QED  BY <1>1, <1>2, <1>3, <1>4, Zenon

(* What they do to a queue in which no record is twice.                    *)
LEMMA InjectiveAppend ==
    ASSUME NEW S, NEW s \in Seq(S), NEW e \in S, IsInjective(s), e \notin Range(s)
    PROVE  IsInjective(Append(s, e))
<1>1. /\ DOMAIN Append(s, e) = 1 .. Len(s) + 1
      /\ \A i \in 1 .. Len(s) : Append(s, e)[i] = s[i] /\ s[i] \in Range(s)
      /\ Append(s, e)[Len(s) + 1] = e
      /\ DOMAIN s = 1 .. Len(s) /\ Len(s) \in Nat
  BY DEF Range
<1>. QED  BY <1>1 DEF IsInjective

LEMMA InjectiveTail ==
    ASSUME NEW S, NEW s \in Seq(S), s # <<>>, IsInjective(s)
    PROVE  IsInjective(Tail(s)) /\ Head(s) \notin Range(Tail(s))
<1>1. /\ DOMAIN Tail(s) = 1 .. Len(s) - 1 /\ DOMAIN s = 1 .. Len(s)
      /\ \A i \in 1 .. Len(s) - 1 : Tail(s)[i] = s[i + 1]
      /\ Head(s) = s[1] /\ Len(s) \in Nat \ {0}
  OBVIOUS
<1>. QED  BY <1>1 DEF IsInjective, Range

LEMMA InjectiveConcat ==
    ASSUME NEW S, NEW s \in Seq(S), NEW t \in Seq(S),
           IsInjective(s), IsInjective(t), Apart(s, t)
    PROVE  IsInjective(s \o t)
<1>1. /\ DOMAIN (s \o t) = 1 .. Len(s) + Len(t)
      /\ \A i \in 1 .. Len(s) + Len(t) :
            (s \o t)[i] = IF i <= Len(s) THEN s[i] ELSE t[i - Len(s)]
      /\ DOMAIN s = 1 .. Len(s) /\ DOMAIN t = 1 .. Len(t)
      /\ Len(s) \in Nat /\ Len(t) \in Nat
  OBVIOUS
<1>2. \A i \in 1 .. Len(s), j \in 1 .. Len(t) : s[i] # t[j]
  BY <1>1, Zenon DEF Apart, Range
<1>. QED  BY <1>1, <1>2 DEF IsInjective

-----------------------------------------------------------------------------
(* Type correctness *)

LEMMA TypeInit == Init => TypeOK
<1>. SUFFICES ASSUME Init PROVE TypeOK
  BY Zenon
<1>1. <<>> \in Seq(Records) /\ Len(<<>>) <= BufferSize
  BY SizesAssumption
<1>2. hold \in [Callers -> Seq(Records)] /\ owed \in [Callers -> SUBSET Records]
  BY <1>1, Zenon DEF Init
<1>3. /\ buffer \in Seq(Records) /\ Len(buffer) <= BufferSize
      /\ batch \in Seq(Records) /\ sink \in Seq(Records) /\ sent \in Seq(Records)
  BY <1>1, Zenon DEF Init
<1>. QED  BY <1>2, <1>3, Zenon DEF Init, TypeOK

LEMMA TypeNext == TypeOK /\ [Next]_vars => TypeOK'
<1>. SUFFICES ASSUME TypeOK, [Next]_vars PROVE TypeOK'
  BY Zenon
<1>. USE DEF flags, channel, drainer, calls
<1>t. ASSUME buffer # <<>>
      PROVE  /\ Head(buffer) \in Records /\ Tail(buffer) \in Seq(Records)
             /\ Len(Tail(buffer)) <= BufferSize
  BY <1>t, SizesAssumption DEF TypeOK
<1>w. ASSUME WriteBatch
      PROVE  sink' \in Seq(Records) /\ batch' \in Seq(Records)
  BY <1>w DEF WriteBatch, TypeOK
<1>1. ASSUME NEW r \in Records, LogCheck(r) PROVE TypeOK'
  BY <1>1, Zenon DEF LogCheck, TypeOK
<1>2. ASSUME NEW r \in Records, LogSend(r) PROVE TypeOK'
  <2>1. CASE closed
    BY <1>2, <2>1, Zenon DEF LogSend, TypeOK
  <2>2. CASE ~closed /\ Len(buffer) < BufferSize
    <3>0. /\ Append(buffer, r) \in Seq(Records)
          /\ Len(Append(buffer, r)) = Len(buffer) + 1
          /\ Append(sent, r) \in Seq(Records) /\ Len(buffer) \in Nat
      BY AppendProperties, LenProperties, Zenon DEF TypeOK
    <3>a. buffer' = Append(buffer, r) /\ sent' = Append(sent, r)
      BY <1>2, <2>2, Zenon DEF LogSend
    <3>b. Len(buffer) + 1 <= BufferSize
      BY <2>2, <3>0, SizesAssumption
    <3>1. /\ buffer' \in Seq(Records) /\ Len(buffer') <= BufferSize
          /\ sent' \in Seq(Records)
      BY <3>0, <3>a, <3>b, Zenon
    <3>. QED  BY <1>2, <2>2, <3>1, Zenon DEF LogSend, TypeOK
  <2>3. CASE ~closed /\ ~(Len(buffer) < BufferSize)
    BY <1>2, <2>3, Zenon DEF LogSend, TypeOK
  <2>. QED  BY <2>1, <2>2, <2>3, Zenon
<1>3. CASE Start
  BY <1>3, Zenon DEF Start, TypeOK
<1>4. CASE DrainTake
  <2>1. batch' \in Seq(Records)
    BY <1>4, <1>t DEF DrainTake, TypeOK
  <2>2. drain' \in {"select", "full"}
    BY <1>4, Zenon DEF DrainTake
  <2>. QED  BY <1>4, <1>t, <2>1, <2>2, Zenon DEF DrainTake, TypeOK
<1>5. CASE DrainFull
  BY <1>5, <1>w, Zenon DEF DrainFull, TypeOK
<1>6. CASE DrainTick
  BY <1>6, <1>w, Zenon DEF DrainTick, TypeOK
<1>7. CASE DrainClosed
  BY <1>7, <1>w, Zenon DEF DrainClosed, TypeOK
<1>8. ASSUME NEW p \in Flushers, DrainAccept(p) PROVE TypeOK'
  BY <1>8, Zenon DEF DrainAccept, TypeOK
<1>9. CASE DrainSweep
  <2>1. batch' \in Seq(Records)
    BY <1>9, <1>t DEF DrainSweep, TypeOK
  <2>. QED  BY <1>9, <1>t, <2>1, Zenon DEF DrainSweep, TypeOK
<1>10. CASE DrainAck
  <2>1. pc' \in [Callers -> {"idle", "handover", "acked", "sync", "closing",
                             "joining", "flushed", "returned"}]
    BY <1>10, Zenon DEF DrainAck, TypeOK
  <2>. QED  BY <1>10, <1>w, <2>1, Zenon DEF DrainAck, TypeOK
<1>11. ASSUME NEW p \in Flushers, FlushCall(p) PROVE TypeOK'
  <2>1. Range(sent) \subseteq Records
    BY RangeOfSeq, Zenon DEF TypeOK
  <2>2. owed' \in [Callers -> SUBSET Records]
    BY <1>11, <2>1, Zenon DEF FlushCall, TypeOK
  <2>. QED  BY <1>11, <2>2, Zenon DEF FlushCall, TypeOK
<1>12. ASSUME NEW p \in Flushers, FlushDone(p) PROVE TypeOK'
  BY <1>12, Zenon DEF FlushDone, TypeOK
<1>13. ASSUME NEW p \in Callers, SyncTake(p) PROVE TypeOK'
  <2>1. Append(hold[p], Head(buffer)) \in Seq(Records)
    BY <1>13, <1>t DEF SyncTake, TypeOK
  <2>2. hold' \in [Callers -> Seq(Records)]
    BY <1>13, <2>1, Zenon DEF SyncTake, TypeOK
  <2>. QED  BY <1>13, <1>t, <2>2, Zenon DEF SyncTake, TypeOK
<1>14. ASSUME NEW p \in Callers, SyncWrite(p) PROVE TypeOK'
  <2>1. sink' \in Seq(Records)
    BY <1>14 DEF SyncWrite, TypeOK
  <2>2. hold' \in [Callers -> Seq(Records)]
    BY <1>14, Zenon DEF SyncWrite, TypeOK
  <2>. QED  BY <1>14, <2>1, <2>2, Zenon DEF SyncWrite, TypeOK
<1>15. ASSUME NEW p \in Stoppers, StopMark(p) PROVE TypeOK'
  BY <1>15, Zenon DEF StopMark, TypeOK
<1>16. ASSUME NEW p \in Stoppers, StopClose(p) PROVE TypeOK'
  BY <1>16, Zenon DEF StopClose, TypeOK
<1>17. ASSUME NEW p \in Stoppers, StopJoin(p) PROVE TypeOK'
  BY <1>17, Zenon DEF StopJoin, TypeOK
<1>18. CASE UNCHANGED vars
  BY <1>18, Zenon DEF vars, TypeOK
<1>. QED
  BY <1>1, <1>2, <1>3, <1>4, <1>5, <1>6, <1>7, <1>8, <1>9, <1>10, <1>11,
     <1>12, <1>13, <1>14, <1>15, <1>16, <1>17, <1>18, Zenon
  DEF Next, Drain, Caller

(* Every queue holds records only, and the channel never exceeds its depth. *)
THEOREM TypeCorrect == Spec => []TypeOK
BY TypeInit, TypeNext, PTL DEF Spec

-----------------------------------------------------------------------------
(* The state of the drain goroutine and of `done' *)

LEMMA LoggerInit == Init => LoggerInv
BY RangeEmpty, Zenon DEF Init, LoggerInv, DoneIsDrained, Callers

LEMMA LoggerNext == TypeOK /\ LoggerInv /\ [Next]_vars => LoggerInv'
<1>. SUFFICES ASSUME TypeOK, LoggerInv, [Next]_vars PROVE LoggerInv'
  BY Zenon
<1>. USE DEF flags, channel, drainer, calls
<1>c. Flushers \subseteq Callers /\ Stoppers \subseteq Callers
      /\ Flushers \cap Stoppers = {}
  BY SizesAssumption, Zenon DEF Callers
<1>1. ASSUME NEW r \in Records, LogCheck(r) PROVE LoggerInv'
  BY <1>1, Zenon DEF LogCheck, LoggerInv, DoneIsDrained
<1>2. ASSUME NEW r \in Records, LogSend(r) PROVE LoggerInv'
  <2>1. CASE UNCHANGED channel
    BY <1>2, <2>1, Zenon DEF LogSend, LoggerInv, DoneIsDrained
  <2>2. CASE ~closed /\ sent' = Append(sent, r)
    <3>1. Range(sent) \subseteq Range(sent')
      BY <2>2, RangeAppend DEF TypeOK
    <3>2. ~done /\ ~closed' /\ done' = done
      BY <1>2, <2>2, Zenon DEF LogSend, LoggerInv, DoneIsDrained
    <3>. QED  BY <1>2, <3>1, <3>2 DEF LogSend, LoggerInv, DoneIsDrained
  <2>. QED  BY <1>2, <2>1, <2>2, Zenon DEF LogSend
<1>3. CASE Start
  BY <1>3, Zenon DEF Start, LoggerInv, DoneIsDrained
<1>4. CASE DrainTake
  BY <1>4, Zenon DEF DrainTake, LoggerInv, DoneIsDrained
<1>5. CASE DrainFull
  BY <1>5, Zenon DEF DrainFull, WriteBatch, LoggerInv, DoneIsDrained
<1>6. CASE DrainTick
  BY <1>6, Zenon DEF DrainTick, WriteBatch, LoggerInv, DoneIsDrained
<1>7. CASE DrainClosed
  BY <1>7, Zenon DEF DrainClosed, WriteBatch, LoggerInv, DoneIsDrained
<1>8. ASSUME NEW p \in Flushers, DrainAccept(p) PROVE LoggerInv'
  BY <1>8, <1>c, Zenon DEF DrainAccept, LoggerInv, DoneIsDrained, TypeOK
<1>9. CASE DrainSweep
  BY <1>9, Zenon DEF DrainSweep, LoggerInv, DoneIsDrained
<1>10. CASE DrainAck
  BY <1>10, <1>c, Zenon DEF DrainAck, WriteBatch, LoggerInv, DoneIsDrained, TypeOK
<1>11. ASSUME NEW p \in Flushers, FlushCall(p) PROVE LoggerInv'
  BY <1>11, <1>c, Zenon DEF FlushCall, LoggerInv, DoneIsDrained, TypeOK
<1>12. ASSUME NEW p \in Flushers, FlushDone(p) PROVE LoggerInv'
  BY <1>12, <1>c, Zenon DEF FlushDone, LoggerInv, DoneIsDrained, TypeOK
<1>13. ASSUME NEW p \in Callers, SyncTake(p) PROVE LoggerInv'
  BY <1>13, Zenon DEF SyncTake, LoggerInv, DoneIsDrained
<1>14. ASSUME NEW p \in Callers, SyncWrite(p) PROVE LoggerInv'
  <2>1. CASE p \in Stoppers
    BY <1>14, <1>c, <2>1, Zenon DEF SyncWrite, LoggerInv, DoneIsDrained, TypeOK
  <2>2. CASE p \notin Stoppers
    BY <1>14, <1>c, <2>2, Zenon DEF SyncWrite, LoggerInv, DoneIsDrained, TypeOK
  <2>. QED  BY <2>1, <2>2, Zenon
<1>15. ASSUME NEW p \in Stoppers, StopMark(p) PROVE LoggerInv'
  BY <1>15, <1>c, Zenon DEF StopMark, LoggerInv, DoneIsDrained, TypeOK
<1>16. ASSUME NEW p \in Stoppers, StopClose(p) PROVE LoggerInv'
  BY <1>16, <1>c, Zenon DEF StopClose, LoggerInv, DoneIsDrained, TypeOK
<1>17. ASSUME NEW p \in Stoppers, StopJoin(p) PROVE LoggerInv'
  BY <1>17, <1>c, Zenon DEF StopJoin, LoggerInv, DoneIsDrained, TypeOK
<1>18. CASE UNCHANGED vars
  BY <1>18, Zenon DEF vars, LoggerInv, DoneIsDrained
<1>. QED
  BY <1>1, <1>2, <1>3, <1>4, <1>5, <1>6, <1>7, <1>8, <1>9, <1>10, <1>11,
     <1>12, <1>13, <1>14, <1>15, <1>16, <1>17, <1>18, Zenon
  DEF Next, Drain, Caller

(* The relation between the flags, the drain goroutine and `done' is an    *)
(* invariant of the logger.                                                *)
THEOREM LoggerInvariant == Spec => []LoggerInv
<1>1. Init => TypeOK /\ LoggerInv
  BY TypeInit, LoggerInit, Zenon
<1>2. TypeOK /\ LoggerInv /\ [Next]_vars => (TypeOK /\ LoggerInv)'
  BY TypeNext, LoggerNext, Zenon
<1>. QED  BY <1>1, <1>2, PTL DEF Spec

(* Once `done' is closed nothing is left in the channel or in the batch,   *)
(* and nothing can be added.                                               *)
THEOREM StopDrains == Spec => []DoneIsDrained
<1>1. LoggerInv => DoneIsDrained
  BY Zenon DEF LoggerInv, DoneIsDrained
<1>. QED  BY <1>1, LoggerInvariant, PTL

-----------------------------------------------------------------------------
(* Waiting for the drain goroutine *)

(* A Flush that offers a request, and a Stop that waits for `done', meet a *)
(* drain goroutine that is running, or find `done' closed; a request that  *)
(* it has taken it is working on; and Stop waits only after it has closed  *)
(* the channel that ends it.                                               *)
WakerIsThere ==
    \A p \in Callers :
        /\ pc[p] \in {"handover", "joining"} => drain \in {"select", "full", "sweep"} \/ done
        /\ pc[p] = "acked" => drain = "sweep"
        /\ pc[p] = "joining" => closed

WaitOK(p) ==
    /\ pc[p] \in {"handover", "joining"} => started
    /\ pc[p] = "acked" => drain = "sweep"
    /\ pc[p] = "joining" => closed

WaitInv == \A p \in Callers : WaitOK(p)

LEMMA WaitNext == TypeOK /\ LoggerInv /\ WaitInv /\ [Next]_vars => WaitInv'
<1>. SUFFICES ASSUME TypeOK, LoggerInv, WaitInv, [Next]_vars PROVE WaitInv'
  BY Zenon
<1>. USE DEF flags, channel, drainer, calls, WaitInv, WaitOK
<1>c. Flushers \subseteq Callers /\ Stoppers \subseteq Callers
      /\ DOMAIN pc = Callers
  BY Zenon DEF Callers, TypeOK
<1>1. CASE pc' = pc /\ started' = started /\ closed' = closed
           /\ (drain = "sweep" => drain' = "sweep")
  BY <1>1, Zenon
<1>2. CASE Start
  BY <1>2, Zenon DEF Start, LoggerInv
<1>3. ASSUME NEW p \in Flushers, DrainAccept(p) PROVE WaitInv'
  BY <1>3, <1>c, Zenon DEF DrainAccept
<1>4. CASE DrainAck
  BY <1>4, Zenon DEF DrainAck
<1>5. ASSUME NEW p \in Flushers, FlushCall(p) PROVE WaitInv'
  BY <1>5, <1>c, Zenon DEF FlushCall
<1>6. ASSUME NEW p \in Flushers, FlushDone(p) PROVE WaitInv'
  BY <1>6, <1>c, Zenon DEF FlushDone
<1>7. ASSUME NEW p \in Callers, SyncWrite(p) PROVE WaitInv'
  BY <1>7, <1>c, Zenon DEF SyncWrite
<1>8. ASSUME NEW p \in Stoppers, StopMark(p) PROVE WaitInv'
  BY <1>8, <1>c, Zenon DEF StopMark
<1>9. ASSUME NEW p \in Stoppers, StopClose(p) PROVE WaitInv'
  BY <1>9, <1>c, Zenon DEF StopClose
<1>10. ASSUME NEW p \in Stoppers, StopJoin(p) PROVE WaitInv'
  BY <1>10, <1>c, Zenon DEF StopJoin
<1>. QED
  BY <1>1, <1>2, <1>3, <1>4, <1>5, <1>6, <1>7, <1>8, <1>9, <1>10, ZenonT(30)
  DEF Next, Drain, Caller, LogCheck, LogSend, DrainTake, DrainFull, DrainTick,
      DrainClosed, DrainSweep, SyncTake, vars

(* No Flush and no Stop is left waiting for a goroutine that was never     *)
(* started or has already exited, however calls of Start, Flush and Stop   *)
(* race for the flags.                                                     *)
THEOREM NobodyWaitsInVain == Spec => []WakerIsThere
<1>1. Init => WaitInv
  BY Zenon DEF Init, WaitInv, WaitOK
<1>2. TypeOK /\ LoggerInv /\ WaitInv => WakerIsThere
  BY Zenon DEF TypeOK, LoggerInv, WaitInv, WaitOK, WakerIsThere
<1>. QED  BY <1>1, <1>2, WaitNext, TypeCorrect, LoggerInvariant, PTL DEF Spec

-----------------------------------------------------------------------------
(* Log and Stop *)

(* A Stop that closes the channel finds no Log between its check of the    *)
(* flag and its send.                                                      *)
StopsBetweenLogs ==
    [][\A p \in Stoppers : StopClose(p) => \A r \in Records : log[r] # "checked"]_vars

NoLateSend == closed => \A r \in Records : log[r] # "checked"

LEMMA NoLateSendNext ==
    ASSUME TypeOK, LoggerInv, NoLateSend, [Next]_vars,
           [\A p \in Stoppers : StopClose(p) => \A r \in Records : log[r] # "checked"]_vars
    PROVE  NoLateSend' /\ (LogNeverPanics => LogNeverPanics')
<1>. USE DEF NoLateSend, LogNeverPanics, Crashed
<1>1. ASSUME NEW r \in Records, LogCheck(r)
      PROVE  NoLateSend' /\ (LogNeverPanics => LogNeverPanics')
  BY <1>1, Zenon DEF LogCheck, channel, LoggerInv, TypeOK
<1>2. ASSUME NEW r \in Records, LogSend(r)
      PROVE  NoLateSend' /\ (LogNeverPanics => LogNeverPanics')
  BY <1>2, Zenon DEF LogSend, channel, TypeOK
<1>3. ASSUME NEW p \in Stoppers, StopClose(p)
      PROVE  NoLateSend' /\ (LogNeverPanics => LogNeverPanics')
  <2>1. CASE UNCHANGED vars
    BY <2>1, Zenon DEF vars, channel
  <2>2. CASE ~UNCHANGED vars
    BY <1>3, <2>2, Zenon DEF StopClose
  <2>. QED  BY <2>1, <2>2, Zenon
<1>4. CASE log' = log /\ closed' = closed
  BY <1>4, Zenon
<1>. QED
  <2>. USE DEF flags, channel, drainer, calls
  <2>1. CASE Drain \/ Start
    BY <1>4, <2>1, Zenon DEF Drain, Start, DrainTake, DrainFull, DrainTick, DrainClosed,
                             DrainAccept, DrainSweep, DrainAck
  <2>2. ASSUME NEW p \in Callers,
               FlushCall(p) \/ FlushDone(p) \/ SyncTake(p) \/ SyncWrite(p)
                 \/ StopMark(p) \/ StopJoin(p)
        PROVE  log' = log /\ closed' = closed
    BY <2>2, Zenon DEF FlushCall, FlushDone, SyncTake, SyncWrite, StopMark, StopJoin
  <2>3. CASE UNCHANGED vars
    BY <1>4, <2>3, Zenon DEF vars
  <2>. QED
    BY <1>1, <1>2, <1>3, <1>4, <2>1, <2>2, <2>3, Zenon DEF Next, Caller, Callers

(* Log panics only in a race: in a program whose Stop closes the channel    *)
(* while no Log is between its check of `stopped' and its send, whatever    *)
(* else runs at the same time, no Log ever sends on the closed channel.     *)
THEOREM PanicsOnlyInRace == Spec /\ StopsBetweenLogs => []LogNeverPanics
<1>1. Init => NoLateSend /\ LogNeverPanics
  BY Zenon DEF Init, NoLateSend, LogNeverPanics, Crashed
<1>2. TypeOK /\ LoggerInv /\ (NoLateSend /\ LogNeverPanics) /\ [Next]_vars
        /\ [\A p \in Stoppers : StopClose(p) => \A r \in Records : log[r] # "checked"]_vars
        => (NoLateSend /\ LogNeverPanics)'
  BY NoLateSendNext, Zenon
<1>. QED  BY <1>1, <1>2, TypeCorrect, LoggerInvariant, PTL DEF Spec, StopsBetweenLogs

-----------------------------------------------------------------------------
(* Order *)

(* Until a caller has received from the channel no caller holds a record.  *)
OrderInv == InOrder /\ (~swept => \A p \in Callers : hold[p] = <<>>)

LEMMA HoldNext ==
    ASSUME TypeOK, OrderInv, [Next]_vars, ~swept'
    PROVE  ~swept /\ \A p \in Callers : hold'[p] = <<>>
<1>. USE DEF flags, channel, drainer, calls
<1>1. ~swept
  BY Zenon DEF Next, Drain, Caller, LogCheck, LogSend, Start, DrainTake, DrainFull,
         DrainTick, DrainClosed, DrainAccept, DrainSweep, DrainAck, FlushCall,
         FlushDone, SyncTake, SyncWrite, StopMark, StopClose, StopJoin, vars
<1>2. CASE hold' = hold
  BY <1>1, <1>2, Zenon DEF OrderInv
<1>3. ASSUME NEW p \in Callers, hold' = [hold EXCEPT ![p] = <<>>]
      PROVE  \A q \in Callers : hold'[q] = <<>>
  BY <1>1, <1>3, Zenon DEF OrderInv, TypeOK
<1>. QED
  BY <1>1, <1>2, <1>3, Zenon
  DEF Next, Drain, Caller, LogCheck, LogSend, Start, DrainTake, DrainFull,
      DrainTick, DrainClosed, DrainAccept, DrainSweep, DrainAck, FlushCall,
      FlushDone, SyncTake, SyncWrite, StopMark, StopClose, StopJoin, vars

LEMMA OrderNext == TypeOK /\ OrderInv /\ [Next]_vars => OrderInv'
<1>. SUFFICES ASSUME TypeOK, OrderInv, [Next]_vars, ~swept' PROVE
              sink' \o batch' \o buffer' = sent'
  BY HoldNext, Zenon DEF OrderInv, InOrder
<1>. USE DEF flags, channel, drainer, calls
<1>0. ~swept
  BY HoldNext, Zenon
<1>1. sink \o batch \o buffer = sent
  BY <1>0, Zenon DEF OrderInv, InOrder
<1>q. /\ sink \in Seq(Records) /\ batch \in Seq(Records)
      /\ buffer \in Seq(Records) /\ sent \in Seq(Records)
  BY Zenon DEF TypeOK
<1>2. CASE UNCHANGED <<sink, batch, buffer, sent>>
  BY <1>1, <1>2, Zenon
<1>3. ASSUME NEW r \in Records, sent' = Append(sent, r),
             buffer' = Append(buffer, r), UNCHANGED <<sink, batch>>
      PROVE  sink' \o batch' \o buffer' = sent'
  <2>1. sink \o batch \in Seq(Records)
    BY <1>q
  <2>2. (sink \o batch) \o Append(buffer, r) = Append((sink \o batch) \o buffer, r)
    BY <1>q, <2>1
  <2>. QED  BY <1>1, <1>3, <2>2, Zenon
<1>4. ASSUME buffer # <<>>, batch' = Append(batch, Head(buffer)),
             buffer' = Tail(buffer), UNCHANGED <<sink, sent>>
      PROVE  sink' \o batch' \o buffer' = sent'
  <2>1. /\ Head(buffer) \in Records /\ Tail(buffer) \in Seq(Records)
        /\ buffer = <<Head(buffer)>> \o Tail(buffer)
    BY <1>4, <1>q, RangeHeadTail, Zenon
  <2>2. /\ <<Head(buffer)>> \in Seq(Records)
        /\ Append(batch, Head(buffer)) = batch \o <<Head(buffer)>>
    BY <1>q, <2>1, AppendIsConcat
  <2>3. (sink \o (batch \o <<Head(buffer)>>)) \o Tail(buffer)
          = (sink \o batch) \o (<<Head(buffer)>> \o Tail(buffer))
    <3>. DEFINE h == <<Head(buffer)>>
    <3>1. sink \o (batch \o h) = (sink \o batch) \o h
      BY <1>q, <2>2, ConcatAssociative
    <3>2. sink \o batch \in Seq(Records)
      BY <1>q, ConcatProperties, Zenon
    <3>3. ((sink \o batch) \o h) \o Tail(buffer) = (sink \o batch) \o (h \o Tail(buffer))
      BY <2>1, <2>2, <3>2, ConcatAssociative
    <3>. QED  BY <3>1, <3>3, Zenon
  <2>. QED  BY <1>1, <1>4, <2>1, <2>2, <2>3, Zenon
<1>5. ASSUME WriteBatch, UNCHANGED <<buffer, sent>>
      PROVE  sink' \o batch' \o buffer' = sent'
  <2>1. (sink \o batch) \o <<>> = sink \o batch
    BY <1>q, ConcatEmptySeq
  <2>. QED  BY <1>1, <1>5, <2>1, Zenon DEF WriteBatch
<1>6. ASSUME NEW p \in Callers, SyncWrite(p)
      PROVE  sink' \o batch' \o buffer' = sent'
  <2>1. sink' = sink /\ UNCHANGED <<batch, buffer, sent>>
    BY <1>0, <1>6, <1>q, ConcatEmptySeq, Zenon DEF SyncWrite, OrderInv
  <2>. QED  BY <1>1, <2>1, Zenon
<1>. QED
  BY <1>2, <1>3, <1>4, <1>5, <1>6, Zenon
  DEF Next, Drain, Caller, LogCheck, LogSend, Start, DrainTake, DrainFull,
      DrainTick, DrainClosed, DrainAccept, DrainSweep, DrainAck, FlushCall,
      FlushDone, SyncTake, SyncWrite, StopMark, StopClose, StopJoin, vars

(* While the drain goroutine is the only one to receive from the channel,  *)
(* the sink is given a prefix of the enqueued records, in their order.     *)
THEOREM SinkInOrder == Spec => []InOrder
<1>1. Init => TypeOK /\ OrderInv
  <2>1. Init => sink \o batch \o buffer = sent
    BY DEF Init
  <2>. QED  BY <2>1, TypeInit, Zenon DEF Init, OrderInv, InOrder
<1>2. TypeOK /\ OrderInv /\ [Next]_vars => (TypeOK /\ OrderInv)'
  BY TypeNext, OrderNext, Zenon
<1>3. OrderInv => InOrder
  BY Zenon DEF OrderInv
<1>. QED  BY <1>1, <1>2, <1>3, PTL DEF Spec

-----------------------------------------------------------------------------
(* No record is lost *)

LEMMA LostInit == Init => NoneLost
<1>. SUFFICES ASSUME Init PROVE NoneLost
  BY Zenon
<1>1. Held = {}
  BY RangeEmpty, Zenon DEF Held, Init
<1>. QED  BY <1>1, RangeEmpty, Zenon DEF Init, NoneLost

LEMMA LostNext == TypeOK /\ NoneLost /\ [Next]_vars => NoneLost'
<1>. SUFFICES ASSUME TypeOK, NoneLost, [Next]_vars PROVE NoneLost'
  OBVIOUS
<1>. USE DEF flags, channel, drainer, calls
<1>q. /\ sink \in Seq(Records) /\ batch \in Seq(Records)
      /\ buffer \in Seq(Records) /\ sent \in Seq(Records)
      /\ \A p \in Callers : hold[p] \in Seq(Records)
  BY Zenon DEF TypeOK
<1>h. hold' = hold => Held' = Held
  BY Zenon DEF Held
<1>1. CASE UNCHANGED <<sink, batch, buffer, sent, hold>>
  BY <1>1, Zenon DEF NoneLost, Held
<1>2. ASSUME NEW r \in Records, sent' = Append(sent, r),
             buffer' = Append(buffer, r), UNCHANGED <<sink, batch, hold>>
      PROVE  NoneLost'
  <2>1. /\ Range(sent') = Range(sent) \cup {r}
        /\ Range(buffer') = Range(buffer) \cup {r}
    BY <1>2, <1>q, RangeAppend
  <2>. QED  BY <1>2, <1>h, <2>1, Zenon DEF NoneLost
<1>3. ASSUME buffer # <<>>, batch' = Append(batch, Head(buffer)),
             buffer' = Tail(buffer), UNCHANGED <<sink, sent, hold>>
      PROVE  NoneLost'
  <2>1. /\ Head(buffer) \in Records
        /\ Range(buffer) = {Head(buffer)} \cup Range(buffer')
    BY <1>3, <1>q, RangeHeadTail, Zenon
  <2>2. Range(batch') = Range(batch) \cup {Head(buffer)}
    BY <1>3, <1>q, <2>1, RangeAppend
  <2>. QED  BY <1>3, <1>h, <2>1, <2>2, Zenon DEF NoneLost
<1>4. ASSUME WriteBatch, UNCHANGED <<buffer, sent, hold>>
      PROVE  NoneLost'
  <2>1. Range(sink') = Range(sink) \cup Range(batch) /\ Range(batch') = {}
    BY <1>4, <1>q, RangeConcatenation, RangeEmpty DEF WriteBatch
  <2>. QED  BY <1>4, <1>h, <2>1, Zenon DEF NoneLost
<1>5. ASSUME NEW p \in Callers, SyncTake(p) PROVE NoneLost'
  <2>1. /\ Head(buffer) \in Records
        /\ Range(buffer) = {Head(buffer)} \cup Range(buffer')
    BY <1>5, <1>q, RangeHeadTail, Zenon DEF SyncTake
  <2>2. \A q \in Callers :
          Range(hold'[q]) = IF q = p THEN Range(hold[p]) \cup {Head(buffer)}
                                     ELSE Range(hold[q])
    <3>1. /\ hold'[p] = Append(hold[p], Head(buffer))
          /\ \A q \in Callers \ {p} : hold'[q] = hold[q]
      BY <1>5, Zenon DEF SyncTake, TypeOK
    <3>2. Range(hold'[p]) = Range(hold[p]) \cup {Head(buffer)}
      BY <1>q, <2>1, <3>1, RangeAppend
    <3>. QED  BY <3>1, <3>2, Zenon
  <2>3. Held' = Held \cup {Head(buffer)}
    BY <2>2, Zenon DEF Held
  <2>. QED  BY <1>5, <2>1, <2>3, Zenon DEF SyncTake, NoneLost
<1>6. ASSUME NEW p \in Callers, SyncWrite(p) PROVE NoneLost'
  <2>1. Range(sink') = Range(sink) \cup Range(hold[p])
    BY <1>6, <1>q, RangeConcatenation DEF SyncWrite
  <2>2. \A q \in Callers :
          Range(hold'[q]) = IF q = p THEN {} ELSE Range(hold[q])
    BY <1>6, RangeEmpty, Zenon DEF SyncWrite, TypeOK
  <2>3. Held' \cup Range(hold[p]) = Held
    BY <2>2, Zenon DEF Held
  <2>. QED  BY <1>6, <2>1, <2>3, Zenon DEF SyncWrite, NoneLost
<1>. QED
  BY <1>1, <1>2, <1>3, <1>4, <1>5, <1>6, Zenon
  DEF Next, Drain, Caller, LogCheck, LogSend, Start, DrainTake, DrainFull,
      DrainTick, DrainClosed, DrainAccept, DrainSweep, DrainAck, FlushCall,
      FlushDone, StopMark, StopClose, StopJoin, vars

(* No enqueued record is lost, however Log, Flush, Stop and the drain      *)
(* goroutine interleave.                                                   *)
THEOREM NoRecordLost == Spec => []NoneLost
<1>1. Init => TypeOK /\ NoneLost
  BY TypeInit, LostInit
<1>2. TypeOK /\ NoneLost /\ [Next]_vars => (TypeOK /\ NoneLost)'
  BY TypeNext, LostNext
<1>. QED  BY <1>1, <1>2, PTL DEF Spec

-----------------------------------------------------------------------------
(* No record is written twice *)

(* A record that is still to be sent is nowhere yet.                       *)
Unsent == \A r \in Records : log[r] \in {"idle", "checked"} => r \notin Range(sent)

LEMMA UnsentNext == TypeOK /\ Unsent /\ [Next]_vars => Unsent'
<1>. SUFFICES ASSUME TypeOK, Unsent, [Next]_vars PROVE Unsent'
  OBVIOUS
<1>. USE DEF flags, channel, drainer, calls
<1>1. CASE UNCHANGED <<log, sent>>
  BY <1>1, Zenon DEF Unsent
<1>2. ASSUME NEW r \in Records, LogCheck(r) PROVE Unsent'
  BY <1>2, Zenon DEF LogCheck, Unsent, TypeOK
<1>3. ASSUME NEW r \in Records, LogSend(r) PROVE Unsent'
  <2>1. CASE sent' = sent
    BY <1>3, <2>1, Zenon DEF LogSend, Unsent, TypeOK
  <2>2. CASE sent' = Append(sent, r) /\ log' = [log EXCEPT ![r] = "sent"]
    <3>1. Range(sent') = Range(sent) \cup {r}
      BY <2>2, RangeAppend DEF TypeOK
    <3>2. log'[r] = "sent" /\ \A q \in Records \ {r} : log'[q] = log[q]
      BY <2>2, Zenon DEF TypeOK
    <3>. QED  BY <3>1, <3>2, Zenon DEF Unsent
  <2>. QED  BY <1>3, <2>1, <2>2, Zenon DEF LogSend
<1>. QED
  BY <1>1, <1>2, <1>3, Zenon
  DEF Next, Drain, Caller, Start, DrainTake, DrainFull, DrainTick, DrainClosed,
      DrainAccept, DrainSweep, DrainAck, FlushCall, FlushDone, SyncTake, SyncWrite,
      StopMark, StopClose, StopJoin, vars

LEMMA TwiceNext ==
    TypeOK /\ Unsent /\ NoneLost /\ NoneTwice /\ [Next]_vars => NoneTwice'
<1>. SUFFICES ASSUME TypeOK, Unsent, NoneLost, NoneTwice, [Next]_vars PROVE NoneTwice'
  BY Zenon
<1>. USE DEF flags, channel, drainer, calls
<1>q. /\ sink \in Seq(Records) /\ batch \in Seq(Records)
      /\ buffer \in Seq(Records) /\ sent \in Seq(Records)
      /\ \A p \in Callers : hold[p] \in Seq(Records)
  BY Zenon DEF TypeOK
<1>1. CASE UNCHANGED <<sink, batch, buffer, hold>>
  BY <1>1, Zenon DEF NoneTwice
<1>2. ASSUME NEW r \in Records, log[r] = "checked",
             buffer' = Append(buffer, r), UNCHANGED <<sink, batch, hold>>
      PROVE  NoneTwice'
  <2>1. /\ r \notin Range(buffer) /\ r \notin Range(batch) /\ r \notin Range(sink)
        /\ \A p \in Callers : r \notin Range(hold[p])
    BY <1>2, Zenon DEF Unsent, NoneLost, Held
  <2>2. IsInjective(buffer') /\ Range(buffer') = Range(buffer) \cup {r}
    BY <1>2, <1>q, <2>1, RangeAppend, InjectiveAppend DEF NoneTwice
  <2>. QED  BY <1>2, <2>1, <2>2 DEF NoneTwice, Apart
<1>h. ASSUME buffer # <<>>, buffer' = Tail(buffer)
      PROVE  /\ Head(buffer) \in Records
             /\ Range(buffer) = {Head(buffer)} \cup Range(buffer')
             /\ IsInjective(buffer') /\ Head(buffer) \notin Range(buffer')
  BY <1>h, <1>q, RangeHeadTail, InjectiveTail, Zenon DEF NoneTwice
<1>3. ASSUME buffer # <<>>, batch' = Append(batch, Head(buffer)),
             buffer' = Tail(buffer), UNCHANGED <<sink, hold>>
      PROVE  NoneTwice'
  <2>1. Head(buffer) \notin Range(batch)
    BY <1>3, <1>h, Zenon DEF NoneTwice, Apart
  <2>2. Range(batch') = Range(batch) \cup {Head(buffer)} /\ IsInjective(batch')
    BY <1>3, <1>q, <1>h, <2>1, RangeAppend, InjectiveAppend DEF NoneTwice
  <2>. QED  BY <1>3, <1>h, <2>2, ZenonT(30) DEF NoneTwice, Apart
<1>4. ASSUME WriteBatch, UNCHANGED <<buffer, hold>>
      PROVE  NoneTwice'
  <2>1. Range(sink') = Range(sink) \cup Range(batch) /\ Range(batch') = {}
    BY <1>4, <1>q, RangeConcatenation, RangeEmpty DEF WriteBatch
  <2>2. IsInjective(sink') /\ IsInjective(batch')
    <3>1. IsInjective(sink \o batch)
      BY <1>q, InjectiveConcat, Zenon DEF NoneTwice, Apart
    <3>2. IsInjective(<<>>)
      BY DEF IsInjective
    <3>. QED  BY <1>4, <3>1, <3>2, Zenon DEF WriteBatch
  <2>. QED  BY <1>4, <2>1, <2>2, Zenon DEF NoneTwice, Apart
<1>5. ASSUME NEW p \in Callers, SyncTake(p) PROVE NoneTwice'
  <2>1. /\ Head(buffer) \in Records
        /\ Range(buffer) = {Head(buffer)} \cup Range(buffer')
        /\ IsInjective(buffer') /\ Head(buffer) \notin Range(buffer')
    BY <1>5, <1>h, Zenon DEF SyncTake
  <2>2. /\ hold'[p] = Append(hold[p], Head(buffer))
        /\ \A q \in Callers \ {p} : hold'[q] = hold[q]
        /\ UNCHANGED <<batch, sink>>
    BY <1>5, Zenon DEF SyncTake, TypeOK
  <2>3. Head(buffer) \notin Range(hold[p])
    BY <2>1, Zenon DEF NoneTwice, Apart
  <2>4. /\ Range(hold'[p]) = Range(hold[p]) \cup {Head(buffer)}
        /\ IsInjective(hold'[p])
    BY <1>q, <2>1, <2>2, <2>3, RangeAppend, InjectiveAppend DEF NoneTwice
  <2>5. ASSUME NEW q \in Callers
        PROVE  /\ IsInjective(hold'[q]) /\ Apart(hold'[q], buffer')
               /\ Apart(hold'[q], batch') /\ Apart(hold'[q], sink')
    <3>0. /\ IsInjective(hold[q]) /\ Apart(hold[q], buffer)
          /\ Apart(hold[q], batch) /\ Apart(hold[q], sink)
          /\ Apart(buffer, batch) /\ Apart(buffer, sink)
      BY Zenon DEF NoneTwice
    <3>1. CASE q = p
      BY <2>1, <2>2, <2>4, <3>0, <3>1, Zenon DEF Apart
    <3>2. CASE q # p
      BY <2>1, <2>2, <3>0, <3>2, Zenon DEF Apart
    <3>. QED  BY <3>1, <3>2, Zenon
  <2>6. ASSUME NEW q \in Callers, NEW r \in Callers, q # r
        PROVE  Apart(hold'[q], hold'[r])
    <3>1. Apart(hold[q], hold[r]) /\ Apart(hold[q], buffer) /\ Apart(hold[r], buffer)
      BY <2>6, Zenon DEF NoneTwice
    <3>2. CASE q = p
      BY <2>1, <2>2, <2>4, <2>6, <3>1, <3>2, Zenon DEF Apart
    <3>3. CASE r = p
      BY <2>1, <2>2, <2>4, <2>6, <3>1, <3>3, ZenonT(30) DEF Apart
    <3>4. CASE q # p /\ r # p
      BY <2>2, <3>1, <3>4, Zenon
    <3>. QED  BY <3>2, <3>3, <3>4, Zenon
  <2>7. /\ Apart(buffer', batch') /\ Apart(buffer', sink') /\ Apart(batch', sink')
        /\ IsInjective(batch') /\ IsInjective(sink')
    BY <2>1, <2>2, Zenon DEF NoneTwice, Apart
  <2>. QED  BY <2>1, <2>5, <2>6, <2>7, Zenon DEF NoneTwice
<1>6. ASSUME NEW p \in Callers, SyncWrite(p) PROVE NoneTwice'
  <2>1. Range(sink') = Range(sink) \cup Range(hold[p])
    BY <1>6, <1>q, RangeConcatenation DEF SyncWrite
  <2>2. IsInjective(sink')
    <3>1. Apart(sink, hold[p]) /\ IsInjective(sink) /\ IsInjective(hold[p])
      BY Zenon DEF NoneTwice, Apart
    <3>. QED  BY <1>6, <1>q, <3>1, InjectiveConcat, Zenon DEF SyncWrite
  <2>3. /\ Range(hold'[p]) = {} /\ IsInjective(hold'[p])
        /\ \A q \in Callers \ {p} : hold'[q] = hold[q]
        /\ UNCHANGED <<batch, buffer>>
    BY <1>6, RangeEmpty DEF SyncWrite, TypeOK, IsInjective
  <2>. QED  BY <2>1, <2>2, <2>3 DEF NoneTwice, Apart
<1>. QED
  BY <1>1, <1>2, <1>3, <1>4, <1>5, <1>6, Zenon
  DEF Next, Drain, Caller, LogCheck, LogSend, Start, DrainTake, DrainFull,
      DrainTick, DrainClosed, DrainAccept, DrainSweep, DrainAck, FlushCall,
      FlushDone, StopMark, StopClose, StopJoin, vars

LEMMA PlacesInvariant == Spec => [](TypeOK /\ Unsent /\ NoneLost /\ NoneTwice)
<1>1. Init => TypeOK /\ Unsent /\ NoneLost /\ NoneTwice
  <2>1. Init => Unsent
    BY RangeEmpty, Zenon DEF Init, Unsent
  <2>2. IsInjective(<<>>)
    BY DEF IsInjective
  <2>3. Init => NoneTwice
    BY <2>2, RangeEmpty, Zenon DEF Init, NoneTwice, Apart
  <2>. QED  BY <2>1, <2>3, TypeInit, LostInit, Zenon
<1>2. TypeOK /\ Unsent /\ NoneLost /\ NoneTwice /\ [Next]_vars
        => (TypeOK /\ Unsent /\ NoneLost /\ NoneTwice)'
  BY TypeNext, UnsentNext, LostNext, TwiceNext, Zenon
<1>. QED  BY <1>1, <1>2, PTL DEF Spec

(* Every enqueued record is in one place and in no other: none is lost and *)
(* none reaches the sink twice, however many callers drain at once.        *)
THEOREM ExactlyOnePlace == Spec => []EachInOnePlace
<1>1. NoneLost /\ NoneTwice => EachInOnePlace
  BY Zenon DEF EachInOnePlace
<1>. QED  BY <1>1, PlacesInvariant, PTL

-----------------------------------------------------------------------------
(* The logger implements the pipe *)

LEMMA PipeNames ==
    \A s : Pipe!Range(s) = Range(s) /\ (Pipe!IsInjective(s) <=> IsInjective(s))
BY Zenon DEF Pipe!Range, Range, Pipe!IsInjective, IsInjective

LEMMA ConcatContinues ==
    ASSUME NEW s \in Seq(Records), NEW t \in Seq(Records)
    PROVE  Pipe!Continues(s, s \o t)
BY DEF Pipe!Continues

(* A write to the sink of records that are nowhere else.                   *)
LEMMA WriteDelivers ==
    ASSUME TypeOK, NoneLost, NoneTwice, NEW t \in Seq(Records),
           sink' = sink \o t, sent' = sent,
           IsInjective(t), Apart(sink, t), Range(t) \subseteq Range(sent),
           Held' = Held \ Range(t), done => done',
           done' => Range(buffer) = {} /\ Range(batch) \subseteq Range(t)
    PROVE  Pipe!Deliver
<1>1. sink \in Seq(Records)
  BY Zenon DEF TypeOK
<1>2. Pipe!Continues(sink, sink')
  BY <1>1, ConcatContinues, Zenon
<1>3. IsInjective(sink')
  BY <1>1, InjectiveConcat, Zenon DEF NoneTwice
<1>4. Range(sink') = Range(sink) \cup Range(t)
  BY <1>1, RangeConcatenation
<1>5. Range(sink) \cap Held = {}
  <2>1. \A p \in Callers : Range(hold[p]) \cap Range(sink) = {}
    BY Zenon DEF NoneTwice, Apart
  <2>. QED  BY <2>1, ZenonT(30) DEF Held
<1>6. Range(sink') \subseteq Range(sent) /\ Held' = Held \ Range(sink')
  BY <1>4, <1>5, Zenon DEF NoneLost
<1>7. done' => Range(sent) = Held' \cup Range(sink')
  BY <1>4, Zenon DEF NoneLost
<1>8. Range(sent)' = Range(sent)
  BY Zenon
<1>. QED  BY <1>2, <1>3, <1>6, <1>7, <1>8, PipeNames, Zenon DEF Pipe!Deliver

LEMMA PipeStep ==
    TypeOK /\ LoggerInv /\ Unsent /\ NoneLost /\ NoneTwice /\ [Next]_vars
        => [Pipe!Next]_(Pipe!vars)
<1>. SUFFICES ASSUME TypeOK, LoggerInv, Unsent, NoneLost, NoneTwice, [Next]_vars
              PROVE  [Pipe!Next]_(Pipe!vars)
  BY Zenon
<1>. USE DEF flags, channel, drainer, calls
<1>q. /\ sink \in Seq(Records) /\ batch \in Seq(Records)
      /\ buffer \in Seq(Records) /\ sent \in Seq(Records)
      /\ \A p \in Callers : hold[p] \in Seq(Records)
  BY Zenon DEF TypeOK
<1>1. CASE UNCHANGED <<sink, sent, hold, done>>
  BY <1>1, Zenon DEF Pipe!vars, Held
<1>2. ASSUME NEW r \in Records, LogSend(r), sent' # sent
      PROVE  Pipe!Accept(r)
  <2>1. sent' = Append(sent, r) /\ ~closed /\ log[r] = "checked"
        /\ UNCHANGED <<hold, sink, done>>
    BY <1>2, Zenon DEF LogSend
  <2>2. Range(sent') = Range(sent) \cup {r} /\ r \notin Range(sent)
    BY <1>q, <2>1, RangeAppend DEF Unsent
  <2>. QED  BY <2>1, <2>2, Zenon DEF Pipe!Accept, LoggerInv, DoneIsDrained, Held
<1>3. ASSUME WriteBatch, UNCHANGED <<sent, hold>>, done => done',
             done' => buffer = <<>>
      PROVE  Pipe!Deliver
  <2>1. Held' = Held /\ Range(batch) \cap Held = {}
    BY <1>3, Zenon DEF Held, NoneTwice, Apart
  <2>2. Range(batch) \subseteq Range(sent) /\ Apart(sink, batch) /\ IsInjective(batch)
    BY Zenon DEF NoneLost, NoneTwice, Apart
  <2>3. Held' = Held \ Range(batch)
    BY <2>1, Zenon
  <2>. QED  BY <1>3, <1>q, <2>2, <2>3, WriteDelivers, RangeEmpty, Zenon DEF WriteBatch
<1>4. ASSUME NEW p \in Callers, SyncTake(p)
      PROVE  Pipe!Carry(Head(buffer)) /\ Head(buffer) \in Records
  <2>1. /\ Head(buffer) \in Records
        /\ Range(buffer) = {Head(buffer)} \cup Range(buffer')
    BY <1>4, <1>q, RangeHeadTail, Zenon DEF SyncTake
  <2>2. /\ hold'[p] = Append(hold[p], Head(buffer))
        /\ \A q \in Callers \ {p} : hold'[q] = hold[q]
    BY <1>4, Zenon DEF SyncTake, TypeOK
  <2>3. Range(hold'[p]) = Range(hold[p]) \cup {Head(buffer)}
    BY <1>q, <2>1, <2>2, RangeAppend
  <2>4. Held' = Held \cup {Head(buffer)}
    BY <2>2, <2>3, Zenon DEF Held
  <2>5. Head(buffer) \in Range(sent) \ (Held \cup Range(sink))
    BY <2>1, ZenonT(30) DEF NoneLost, NoneTwice, Apart, Held
  <2>6. ~done
    BY <1>4, Zenon DEF SyncTake, LoggerInv, DoneIsDrained
  <2>7. Range(sent)' = Range(sent) /\ sink' = sink /\ done' = done
    BY <1>4, Zenon DEF SyncTake
  <2>. QED  BY <2>1, <2>4, <2>5, <2>6, <2>7, PipeNames, Zenon DEF Pipe!Carry
<1>5. ASSUME NEW p \in Callers, SyncWrite(p) PROVE Pipe!Deliver
  <2>1. /\ hold'[p] = <<>> /\ \A q \in Callers \ {p} : hold'[q] = hold[q]
        /\ sink' = sink \o hold[p] /\ sent' = sent /\ buffer = <<>>
        /\ done => done'
        /\ done' => done \/ p \in Stoppers
    BY <1>5, Zenon DEF SyncWrite, TypeOK
  <2>2. Range(hold[p]) \subseteq Range(sent) /\ Apart(sink, hold[p]) /\ IsInjective(hold[p])
    BY Zenon DEF NoneLost, NoneTwice, Apart, Held
  <2>3. Held' = Held \ Range(hold[p])
    <3>1. \A q \in Callers \ {p} : Range(hold[q]) \cap Range(hold[p]) = {}
      BY Zenon DEF NoneTwice, Apart
    <3>2. Range(hold'[p]) = {}
      BY <2>1, RangeEmpty, Zenon
    <3>. QED  BY <2>1, <3>1, <3>2, ZenonT(30) DEF Held
  <2>4. done' => batch = <<>>
    BY <1>5, <2>1, Zenon DEF SyncWrite, LoggerInv, DoneIsDrained
  <2>5. done' => Range(buffer) = {} /\ Range(batch) \subseteq Range(hold[p])
    BY <2>1, <2>4, RangeEmpty, Zenon
  <2>. QED  BY <1>q, <2>1, <2>2, <2>3, <2>5, WriteDelivers, Zenon
<1>. QED
  <2>1. CASE DrainFull \/ DrainTick \/ DrainClosed \/ DrainAck
    BY <1>3, <2>1, Zenon DEF DrainFull, DrainTick, DrainClosed, DrainAck,
                            LoggerInv, DoneIsDrained, Pipe!Next
  <2>2. CASE ~(DrainFull \/ DrainTick \/ DrainClosed \/ DrainAck)
    BY <1>1, <1>2, <1>4, <1>5, <2>2, Zenon
    DEF Next, Drain, Caller, LogCheck, LogSend, Start, DrainTake, DrainAccept, DrainSweep,
        FlushCall, FlushDone, StopMark, StopClose, StopJoin, vars, Pipe!Next
  <2>. QED  BY <2>1, <2>2, Zenon

(* For any number of Log, Flush and Stop calls the logger implements the   *)
(* pipe: no record is delivered twice, and `done' is closed only when each *)
(* has been delivered or is with a caller that is about to write it.       *)
THEOREM PipeRefinement == Spec => ImplementsPipe
<1>1. Init => Pipe!Init
  <2>1. Init => Held = {}
    BY RangeEmpty, Zenon DEF Held, Init
  <2>. QED  BY <2>1, RangeEmpty, Zenon DEF Init, Pipe!Init
<1>2. Spec => [](TypeOK /\ Unsent /\ NoneLost /\ NoneTwice)
  BY PlacesInvariant, Zenon
<1>. QED
  BY <1>1, <1>2, PipeStep, LoggerInvariant, PTL DEF Spec, ImplementsPipe, Pipe!Spec

-----------------------------------------------------------------------------
(* What an acknowledged flush means *)

(* What has been written or is with a draining caller stays so.            *)
LEMMA DeliveredGrows ==
    ASSUME TypeOK, [Next]_vars
    PROVE  Range(sink) \cup Held \subseteq Range(sink') \cup Held'
<1>. USE DEF flags, channel, drainer, calls
<1>q. /\ sink \in Seq(Records) /\ batch \in Seq(Records)
      /\ buffer \in Seq(Records)
      /\ \A p \in Callers : hold[p] \in Seq(Records)
  BY Zenon DEF TypeOK
<1>1. CASE UNCHANGED <<sink, hold>>
  BY <1>1, Zenon DEF Held
<1>2. ASSUME WriteBatch, UNCHANGED hold
      PROVE  Range(sink) \cup Held \subseteq Range(sink') \cup Held'
  <2>1. Range(sink') = Range(sink) \cup Range(batch)
    BY <1>2, <1>q, RangeConcatenation DEF WriteBatch
  <2>. QED  BY <1>2, <2>1, Zenon DEF Held
<1>3. ASSUME NEW p \in Callers, SyncTake(p)
      PROVE  Range(sink) \cup Held \subseteq Range(sink') \cup Held'
  <2>1. Head(buffer) \in Records
    BY <1>3, <1>q, RangeHeadTail, Zenon DEF SyncTake
  <2>2. /\ hold'[p] = Append(hold[p], Head(buffer))
        /\ \A q \in Callers \ {p} : hold'[q] = hold[q]
    BY <1>3, Zenon DEF SyncTake, TypeOK
  <2>3. Range(hold'[p]) = Range(hold[p]) \cup {Head(buffer)}
    BY <1>q, <2>1, <2>2, RangeAppend
  <2>4. Held \subseteq Held'
    BY <2>2, <2>3, Zenon DEF Held
  <2>. QED  BY <1>3, <2>4, Zenon DEF SyncTake
<1>4. ASSUME NEW p \in Callers, SyncWrite(p)
      PROVE  Range(sink) \cup Held \subseteq Range(sink') \cup Held'
  <2>1. Range(sink') = Range(sink) \cup Range(hold[p])
    BY <1>4, <1>q, RangeConcatenation DEF SyncWrite
  <2>2. \A q \in Callers \ {p} : hold'[q] = hold[q]
    BY <1>4, Zenon DEF SyncWrite, TypeOK
  <2>. QED  BY <2>1, <2>2, Zenon DEF Held
<1>. QED
  BY <1>1, <1>2, <1>3, <1>4, Zenon
  DEF Next, Drain, Caller, LogCheck, LogSend, Start, DrainTake, DrainFull,
      DrainTick, DrainClosed, DrainAccept, DrainSweep, DrainAck, FlushCall,
      FlushDone, StopMark, StopClose, StopJoin, vars

LEMMA AckNext ==
    TypeOK /\ LoggerInv /\ NoneLost /\ AckedFlushDelivers /\ [Next]_vars
        => AckedFlushDelivers'
<1>. SUFFICES ASSUME TypeOK, LoggerInv, NoneLost, AckedFlushDelivers, [Next]_vars,
                     NEW p \in Flushers, pc'[p] = "flushed"
              PROVE  owed'[p] \subseteq Range(sink') \cup Held'
  BY Zenon DEF AckedFlushDelivers
<1>. USE DEF flags, channel, drainer, calls
<1>c. p \in Callers
  BY Zenon DEF Callers
<1>1. CASE pc[p] = "flushed" /\ owed'[p] = owed[p]
  BY <1>1, DeliveredGrows, Zenon DEF AckedFlushDelivers
<1>2. CASE DrainAck /\ pc[p] = "acked"
  <2>1. /\ sink \in Seq(Records) /\ batch \in Seq(Records)
    BY Zenon DEF TypeOK
  <2>2. Range(sink') = Range(sink) \cup Range(batch)
    BY <1>2, <2>1, RangeConcatenation DEF DrainAck, WriteBatch
  <2>3. Held' = Held /\ owed' = owed /\ Range(buffer) = {}
    BY <1>2, RangeEmpty, Zenon DEF DrainAck, Held
  <2>4. owed[p] \subseteq Range(sent)
    BY Zenon DEF LoggerInv
  <2>. QED  BY <2>2, <2>3, <2>4, Zenon DEF NoneLost
<1>. QED
  BY <1>1, <1>2, <1>c, ZenonT(30)
  DEF Next, Drain, Caller, LogCheck, LogSend, Start, DrainTake, DrainFull,
      DrainTick, DrainClosed, DrainAccept, DrainSweep, DrainAck, FlushCall,
      FlushDone, SyncTake, SyncWrite, StopMark, StopClose, StopJoin, vars, TypeOK

(* An acknowledged Flush has written all that was enqueued before it, but  *)
(* for records another caller took from the channel.                       *)
THEOREM AcknowledgedFlush == Spec => []AckedFlushDelivers
<1>1. Init => AckedFlushDelivers
  BY Zenon DEF Init, AckedFlushDelivers, Callers
<1>2. TypeOK /\ LoggerInv /\ NoneLost /\ AckedFlushDelivers /\ [Next]_vars
        => AckedFlushDelivers'
  BY AckNext, Zenon
<1>. QED  BY <1>1, <1>2, TypeCorrect, LoggerInvariant, NoRecordLost, PTL DEF Spec

-----------------------------------------------------------------------------
(* The socket client *)

(* A daemon that opens a session changes the owner of no other one.        *)
LEMMA OwnerAppend ==
    ASSUME NEW S, NEW s \in Seq(S), NEW e \in S
    PROVE  /\ Append(s, e) \in Seq(S)
           /\ Len(Append(s, e)) = Len(s) + 1
           /\ Len(s) \in Nat
           /\ Append(s, e)[Len(s) + 1] = e
           /\ \A n \in 1 .. Len(s) : Append(s, e)[n] = s[n] /\ s[n] \in S
BY AppendProperties, LenProperties, ElementOfSeq

(* The names of a call's places and results.                               *)
LEMMA Names ==
    /\ \A p \in {"idle", "lookup", "put", "stored", "send", "sent",
                 "answered", "forget", "delete", "done"} : p \in Places
    /\ \A r \in {"none", "ok", "malformed", "refused", "miss_error",
                 "miss_deny"} : r \in Replies
    /\ \A r \in {"none", "session", "ok", "partial", "missing", "error",
                 "key_error"} : r \in Results
    /\ "open" \in Kinds
BY Zenon DEF Places, Replies, Results, Kinds

LEMMA FinishTypes ==
    ASSUME SocketTypeOK, NEW c \in Calls, NEW r \in Results,
           NEW s \in Sessions \cup {NoSession}, Finish(c, r, s)
    PROVE  /\ stage' \in [Calls -> Places]
           /\ result' \in [Calls -> Results]
           /\ sid' \in [Calls -> Sessions \cup {NoSession}]
           /\ kind' \in [Calls -> Kinds]
           /\ who' \in [Calls -> Identities \cup {Nobody}]
           /\ attempt' \in [Calls -> 0 .. 1]
           /\ missed' \in [Calls -> Sessions \cup {NoSession}]
           /\ ran' \in [Calls -> Nat]
<1>1. "done" \in Places /\ "open" \in Kinds
  BY Names, Zenon
<1>2. 0 \in 0 .. 1 /\ 0 \in Nat /\ NoSession \in Sessions \cup {NoSession}
  OBVIOUS
<1>. QED  BY <1>1, <1>2, Zenon DEF SocketTypeOK, Finish, Goto

(* Going on to another place, with the session it already has.             *)
LEMMA GoOnTypes ==
    ASSUME SocketTypeOK, NEW c \in Calls, NEW p \in Places, GoOn(c, p)
    PROVE  /\ stage' \in [Calls -> Places]
           /\ result' = result
           /\ kind' = kind /\ who' = who /\ attempt' = attempt
           /\ missed' = missed /\ ran' = ran
BY Zenon DEF SocketTypeOK, GoOn, Goto, local

LEMMA OpenedTypes ==
    ASSUME SocketTypeOK, NEW c \in Calls, NEW s \in Sessions \cup {NoSession},
           Opened(c, s)
    PROVE  /\ stage' \in [Calls -> Places]
           /\ result' \in [Calls -> Results]
           /\ sid' \in [Calls -> Sessions \cup {NoSession}]
           /\ kind' \in [Calls -> Kinds]
           /\ who' \in [Calls -> Identities \cup {Nobody}]
           /\ attempt' \in [Calls -> 0 .. 1]
           /\ missed' \in [Calls -> Sessions \cup {NoSession}]
           /\ ran' \in [Calls -> Nat]
<1>1. CASE kind[c] = "open"
  <2>1. Finish(c, "session", s)
    BY <1>1, Zenon DEF Opened
  <2>. QED  BY <2>1, Names, FinishTypes, Zenon
<1>2. CASE kind[c] # "open"
  <2>1. PICK p \in {"forget", "send"} : GoOn(c, p)
    BY <1>2, Zenon DEF Opened
  <2>2. p \in Places
    BY Names, Zenon
  <2>3. sid' = [sid EXCEPT ![c] = s]
    BY <1>2, Zenon DEF Opened
  <2>. QED  BY <2>1, <2>2, <2>3, GoOnTypes, Zenon DEF SocketTypeOK
<1>. QED  BY <1>1, <1>2, Zenon

(* Each step keeps the types.  Only DaemonPut changes the set of sessions. *)
LEMMA SocketTypeStep == SocketTypeOK /\ SocketInv /\ [SocketNext]_socketVars => SocketTypeOK'
<1>. SUFFICES ASSUME SocketTypeOK, SocketInv, [SocketNext]_socketVars PROVE SocketTypeOK'
  BY Zenon
<1>. USE SocketAssumption, Names
<1>0. ASSUME owner' = owner PROVE Sessions' = Sessions
  BY <1>0, Zenon DEF Sessions
<1>1. ASSUME NEW c \in Calls, NEW k \in Kinds, NEW i \in Identities,
             Begin(c, k, i)
      PROVE  SocketTypeOK'
  BY <1>0, <1>1, Zenon DEF SocketTypeOK, Begin, Goto, daemon
<1>2. ASSUME NEW c \in Calls, NEW k \in Operations, NEW s \in Sessions,
             Use(c, k, s)
      PROVE  SocketTypeOK'
  <2>1. owner[s] \in Identities /\ k \in Kinds
    BY <1>2 DEF SocketTypeOK, Sessions, Kinds
  <2>. QED  BY <1>0, <1>2, <2>1, Zenon DEF SocketTypeOK, Use, Goto, daemon
<1>3. ASSUME NEW i \in Identities, ForgetSession(i)
      PROVE  SocketTypeOK'
  BY <1>0, <1>3, Zenon DEF SocketTypeOK, ForgetSession, daemon, local
<1>4. ASSUME NEW c \in Calls, Lookup(c)
      PROVE  SocketTypeOK'
  <2>1. CASE cache[who[c]] # NoSession
    <3>1. cache[who[c]] \in Sessions \cup {NoSession}
      BY <1>4, Zenon DEF SocketTypeOK, SocketInv, Owns, Lookup
    <3>. QED  BY <1>0, <1>4, <2>1, <3>1, OpenedTypes, Zenon DEF SocketTypeOK, Lookup, daemon
  <2>2. CASE cache[who[c]] = NoSession
    BY <1>0, <1>4, <2>2, GoOnTypes, Zenon DEF SocketTypeOK, Lookup, daemon
  <2>. QED  BY <2>1, <2>2, Zenon
<1>5. ASSUME NEW c \in Calls, DaemonPut(c)
      PROVE  SocketTypeOK'
  <2>1. who[c] \in Identities /\ owner \in Seq(Identities)
    BY <1>5, Zenon DEF SocketTypeOK, SocketInv, Owns, DaemonPut
  <2>2. /\ owner' \in Seq(Identities) /\ Len(owner) \in Nat
        /\ Len(owner') = Len(owner) + 1
    BY <1>5, <2>1, OwnerAppend DEF DaemonPut
  <2>3. Sessions' = Sessions \cup {Len(owner) + 1}
    BY <2>2 DEF Sessions
  <2>4. /\ live' \subseteq Sessions'
        /\ sid' \in [Calls -> Sessions' \cup {NoSession}]
        /\ cache' \in [Identities -> Sessions' \cup {NoSession}]
    BY <1>5, <2>3, Zenon DEF SocketTypeOK, DaemonPut
  <2>5. GoOn(c, "stored") /\ reply' = reply
    BY <1>5, Zenon DEF DaemonPut
  <2>. QED  BY <2>2, <2>3, <2>4, <2>5, GoOnTypes, Zenon DEF SocketTypeOK
<1>6. ASSUME NEW c \in Calls, Store(c)
      PROVE  SocketTypeOK'
  <2>1. Opened(c, sid[c]) /\ sid[c] \in Sessions \cup {NoSession}
    BY <1>6, Zenon DEF SocketTypeOK, Store
  <2>2. cache' \in [Identities -> Sessions \cup {NoSession}]
    BY <1>6, <2>1, Zenon DEF SocketTypeOK, Store
  <2>. QED  BY <1>0, <1>6, <2>1, <2>2, OpenedTypes, Zenon DEF SocketTypeOK, Store, daemon
<1>7. ASSUME NEW c \in Calls, Send(c)
      PROVE  SocketTypeOK'
  BY <1>0, <1>7, GoOnTypes, Zenon DEF SocketTypeOK, Send, daemon
<1>8. ASSUME NEW c \in Calls, DaemonAnswer(c)
      PROVE  SocketTypeOK'
  <2>1. PICK r \in Answers(kind[c], sid[c]) :
          /\ reply' = [reply EXCEPT ![c] = r]
          /\ ran' = [ran EXCEPT ![c] = @ + IF r \in {"ok", "malformed"} THEN 1 ELSE 0]
          /\ live' = IF kind[c] = "close" /\ r = "ok" THEN live \ {sid[c]} ELSE live
    BY <1>8, Zenon DEF DaemonAnswer
  <2>2. r \in Replies
    BY Zenon DEF Answers
  <2>3. ran[c] + 1 \in Nat /\ ran[c] + 0 \in Nat
    BY DEF SocketTypeOK
  <2>4. ran' \in [Calls -> Nat] /\ reply' \in [Calls -> Replies]
    BY <2>1, <2>2, <2>3, Zenon DEF SocketTypeOK
  <2>. QED  BY <1>0, <1>8, <2>1, <2>4, Zenon DEF SocketTypeOK, DaemonAnswer, Goto
<1>9. ASSUME NEW c \in Calls, Receive(c)
      PROVE  SocketTypeOK'
  <2>1. attempt[c] + 1 \in 0 .. 1
    BY <1>9 DEF Receive, Reopens
  <2>. QED  BY <1>0, <1>9, <2>1, Zenon DEF SocketTypeOK, Receive, Goto, daemon
<1>10. ASSUME NEW c \in Calls, Return(c)
       PROVE  SocketTypeOK'
  <2>1. PICK r \in Results : Finish(c, r, NoSession)
    BY <1>10, Zenon DEF Return
  <2>. QED  BY <1>0, <1>10, <2>1, FinishTypes, Zenon DEF SocketTypeOK, Return, daemon
<1>11. ASSUME NEW c \in Calls, Fail(c)
       PROVE  SocketTypeOK'
  <2>1. Finish(c, "error", NoSession)
    BY <1>11, Zenon DEF Fail
  <2>. QED  BY <1>0, <1>11, <2>1, FinishTypes, Zenon DEF SocketTypeOK, Fail, daemon
<1>12. ASSUME NEW c \in Calls, Forget(c)
       PROVE  SocketTypeOK'
  <2>1. sid' = sid /\ \E q \in Places : GoOn(c, q)
    BY <1>12, Zenon DEF Forget, Forgotten
  <2>. QED  BY <1>0, <1>12, <2>1, GoOnTypes, Zenon DEF SocketTypeOK, Forget, daemon
<1>13. ASSUME NEW c \in Calls, Delete(c)
       PROVE  SocketTypeOK'
  <2>1. CASE cache[who[c]] = NoSession
    <3>1. Finish(c, "key_error", NoSession)
      BY <1>13, <2>1, Zenon DEF Delete
    <3>. QED  BY <1>0, <1>13, <2>1, <3>1, FinishTypes, Zenon DEF SocketTypeOK, Delete, daemon
  <2>2. CASE cache[who[c]] # NoSession
    <3>1. sid' = sid /\ \E q \in Places : GoOn(c, q)
      BY <1>13, <2>2, Zenon DEF Delete, Forgotten
    <3>. QED  BY <1>0, <1>13, <2>2, <3>1, GoOnTypes, Zenon DEF SocketTypeOK, Delete, daemon
  <2>. QED  BY <2>1, <2>2, Zenon
<1>14. ASSUME NEW s \in live, Expire(s)
       PROVE  SocketTypeOK'
  BY <1>0, <1>14, Zenon DEF SocketTypeOK, Expire, local
<1>15. ASSUME UNCHANGED socketVars
       PROVE  SocketTypeOK'
  BY <1>0, <1>15, Zenon DEF SocketTypeOK, socketVars, daemon, local
<1>. QED
  BY <1>1, <1>2, <1>3, <1>4, <1>5, <1>6, <1>7, <1>8, <1>9, <1>10, <1>11,
     <1>12, <1>13, <1>14, <1>15, Zenon DEF SocketNext, CallStep

-----------------------------------------------------------------------------
(* Each step keeps what the cache and the calls know about the sessions.   *)
LEMMA SocketStep ==
    SocketTypeOK /\ SocketInv /\ SocketTypeOK' /\ [SocketNext]_socketVars => SocketInv'
<1>. SUFFICES ASSUME SocketTypeOK, SocketInv, SocketTypeOK', [SocketNext]_socketVars
              PROVE  SocketInv'
  BY Zenon
<1>. USE SocketAssumption DEF NoSession, Nobody, InSession
<1>a. Cached
  BY Zenon DEF SocketInv
<1>b. \A c \in Calls : Idle(c) /\ Owns(c)
  BY Zenon DEF SocketInv
<1>c. \A c \in Calls : Issued(c)
  BY Zenon DEF SocketInv
<1>d. \A c \in Calls : Retried(c) /\ Closing(c)
  BY Zenon DEF SocketInv
<1>e. \A c \in Calls : Ran(c)
  BY Zenon DEF SocketInv
<1>. ASSUME owner' = owner PROVE Sessions' = Sessions
  BY Zenon DEF Sessions
<1>. NoSession \notin Sessions /\ \A n \in Sessions : owner[n] \in Identities
  BY DEF SocketTypeOK, Sessions
<1>. /\ cache \in [Identities -> Sessions \cup {NoSession}]
     /\ sid \in [Calls -> Sessions \cup {NoSession}]
     /\ missed \in [Calls -> Sessions \cup {NoSession}]
     /\ who \in [Calls -> Identities \cup {Nobody}]
     /\ stage \in [Calls -> Places] /\ kind \in [Calls -> Kinds]
     /\ reply \in [Calls -> Replies] /\ result \in [Calls -> Results]
     /\ attempt \in [Calls -> 0 .. 1] /\ ran \in [Calls -> Nat]
  BY Zenon DEF SocketTypeOK
<1>1. ASSUME NEW c \in Calls, NEW k \in Kinds, NEW i \in Identities,
             Begin(c, k, i)
      PROVE  SocketInv'
  <2>1. Cached'
    BY <1>1, <1>a, <1>b, Zenon DEF Begin, Goto, daemon, Cached, Owns
  <2>2. ASSUME NEW d \in Calls PROVE Idle(d)' /\ Owns(d)'
    BY <1>1, <1>a, <1>b, Zenon DEF Begin, Goto, daemon, Cached, Idle, Owns
  <2>3. ASSUME NEW d \in Calls PROVE Issued(d)'
    BY <1>1, <1>b, <1>c, Zenon DEF Begin, Goto, daemon, Owns, Issued
  <2>4. ASSUME NEW d \in Calls PROVE Retried(d)' /\ Closing(d)'
    BY <1>1, <1>b, <1>c, <1>d DEF Begin, Goto, daemon, Idle, Owns, Issued, Retried, Closing
  <2>5. ASSUME NEW d \in Calls PROVE Ran(d)'
    BY <1>1, <1>e, Zenon DEF Begin, Goto, daemon, Ran
  <2>. QED  BY <2>1, <2>2, <2>3, <2>4, <2>5, Zenon DEF SocketInv
<1>2. ASSUME NEW c \in Calls, NEW k \in Operations, NEW s \in Sessions,
             Use(c, k, s)
      PROVE  SocketInv'
  <2>1. Cached'
    BY <1>2, <1>a, <1>b, Zenon DEF Use, Goto, daemon, Cached, Owns
  <2>2. ASSUME NEW d \in Calls PROVE Idle(d)' /\ Owns(d)'
    BY <1>2, <1>a, <1>b, Zenon DEF Use, Goto, daemon, Cached, Idle, Owns
  <2>3. ASSUME NEW d \in Calls PROVE Issued(d)'
    BY <1>2, <1>b, <1>c DEF Use, Goto, daemon, Owns, Issued
  <2>4. ASSUME NEW d \in Calls PROVE Retried(d)' /\ Closing(d)'
    BY <1>2, <1>b, <1>c, <1>d DEF Use, Goto, daemon, Idle, Owns, Issued, Retried, Closing
  <2>5. ASSUME NEW d \in Calls PROVE Ran(d)'
    BY <1>2, <1>e, Zenon DEF Use, Goto, daemon, Ran
  <2>. QED  BY <2>1, <2>2, <2>3, <2>4, <2>5, Zenon DEF SocketInv
<1>3. ASSUME NEW i \in Identities, ForgetSession(i)
      PROVE  SocketInv'
  <2>1. Cached'
    BY <1>3, <1>a, <1>b, Zenon DEF ForgetSession, daemon, local, Cached, Owns
  <2>2. ASSUME NEW d \in Calls PROVE Idle(d)' /\ Owns(d)'
    BY <1>3, <1>a, <1>b, Zenon DEF ForgetSession, daemon, local, Cached, Idle, Owns
  <2>3. ASSUME NEW d \in Calls PROVE Issued(d)'
    BY <1>3, <1>b, <1>c, Zenon DEF ForgetSession, daemon, local, Owns, Issued
  <2>4. ASSUME NEW d \in Calls PROVE Retried(d)' /\ Closing(d)'
    BY <1>3, <1>b, <1>c, <1>d DEF ForgetSession, daemon, local, Idle, Owns, Issued, Retried, Closing
  <2>5. ASSUME NEW d \in Calls PROVE Ran(d)'
    BY <1>3, <1>e, Zenon DEF ForgetSession, daemon, local, Ran
  <2>. QED  BY <2>1, <2>2, <2>3, <2>4, <2>5, Zenon DEF SocketInv
<1>4. ASSUME NEW c \in Calls, Lookup(c)
      PROVE  SocketInv'
  <2>1. Cached'
    BY <1>4, <1>a, <1>b, Zenon DEF Lookup, Opened, Finish, GoOn, Goto, daemon, local, Cached, Owns
  <2>2. ASSUME NEW d \in Calls PROVE Idle(d)' /\ Owns(d)'
    BY <1>4, <1>a, <1>b DEF Lookup, Opened, Finish, GoOn, Goto, daemon, local, Cached, Idle, Owns
  <2>3. ASSUME NEW d \in Calls PROVE Issued(d)'
    BY <1>4, <1>b, <1>c DEF Lookup, Opened, Finish, GoOn, Goto, daemon, local, Owns, Issued
  <2>4. ASSUME NEW d \in Calls PROVE Retried(d)' /\ Closing(d)'
    BY <1>4, <1>b, <1>c, <1>d DEF Lookup, Opened, Finish, GoOn, Goto, daemon, local, Idle, Owns, Issued, Retried, Closing
  <2>5. ASSUME NEW d \in Calls PROVE Ran(d)'
    BY <1>4, <1>e DEF Lookup, Opened, Finish, GoOn, Goto, daemon, local, Ran
  <2>. QED  BY <2>1, <2>2, <2>3, <2>4, <2>5, Zenon DEF SocketInv
<1>5. ASSUME NEW c \in Calls, DaemonPut(c)
      PROVE  SocketInv'
  <2>0. /\ owner' = Append(owner, who[c])
        /\ who[c] \in Identities /\ owner \in Seq(Identities)
    BY <1>5, <1>b, Zenon DEF SocketTypeOK, DaemonPut, Owns
  <2>1. DEFINE new == Len(owner) + 1
  <2>2. /\ owner'[new] = who[c] /\ new \notin Sessions /\ new # NoSession
        /\ Sessions' = Sessions \cup {new}
        /\ \A n \in Sessions : owner'[n] = owner[n]
    BY <2>0, OwnerAppend DEF Sessions
  <2>3. /\ stage' = [stage EXCEPT ![c] = "stored"] /\ sid' = [sid EXCEPT ![c] = new]
        /\ stage[c] = "put"
        /\ UNCHANGED <<cache, kind, who, attempt, missed, ran, reply, result>>
    BY <1>5, Zenon DEF DaemonPut, GoOn, Goto, local
  <2>. HIDE DEF new
  <2>4. Cached'
    BY <2>2, <2>3, <1>a DEF Cached
  <2>5. ASSUME NEW d \in Calls PROVE Idle(d)' /\ Owns(d)'
    BY <2>0, <2>2, <2>3, <1>b, Zenon DEF Idle, Owns
  <2>6. ASSUME NEW d \in Calls PROVE Issued(d)'
    BY <2>2, <2>3, <1>b, <1>c DEF Owns, Issued
  <2>7. ASSUME NEW d \in Calls PROVE Retried(d)' /\ Closing(d)'
    BY <2>2, <2>3, <1>d, Zenon DEF Retried, Closing
  <2>8. ASSUME NEW d \in Calls PROVE Ran(d)'
    BY <2>3, <1>e, Zenon DEF Ran
  <2>. QED  BY <2>4, <2>5, <2>6, <2>7, <2>8 DEF SocketInv
<1>6. ASSUME NEW c \in Calls, Store(c)
      PROVE  SocketInv'
  <2>1. Cached'
    BY <1>6, <1>a, <1>b, Zenon DEF Store, Opened, Finish, GoOn, Goto, daemon, local, Cached, Owns
  <2>2. ASSUME NEW d \in Calls PROVE Idle(d)' /\ Owns(d)'
    BY <1>6, <1>a, <1>b DEF Store, Opened, Finish, GoOn, Goto, daemon, local, Cached, Idle, Owns
  <2>3. ASSUME NEW d \in Calls PROVE Issued(d)'
    BY <1>6, <1>b, <1>c DEF Store, Opened, Finish, GoOn, Goto, daemon, local, Owns, Issued
  <2>4. ASSUME NEW d \in Calls PROVE Retried(d)' /\ Closing(d)'
    BY <1>6, <1>b, <1>c, <1>d DEF Store, Opened, Finish, GoOn, Goto, daemon, local, Idle, Owns, Issued, Retried, Closing
  <2>5. ASSUME NEW d \in Calls PROVE Ran(d)'
    BY <1>6, <1>e DEF Store, Opened, Finish, GoOn, Goto, daemon, local, Ran
  <2>. QED  BY <2>1, <2>2, <2>3, <2>4, <2>5 DEF SocketInv
<1>7. ASSUME NEW c \in Calls, Send(c)
      PROVE  SocketInv'
  <2>1. Cached'
    BY <1>7, <1>a, <1>b, Zenon DEF Send, GoOn, Goto, daemon, local, Cached, Owns
  <2>2. ASSUME NEW d \in Calls PROVE Idle(d)' /\ Owns(d)'
    BY <1>7, <1>a, <1>b, Zenon DEF Send, GoOn, Goto, daemon, local, Cached, Idle, Owns
  <2>3. ASSUME NEW d \in Calls PROVE Issued(d)'
    BY <1>7, <1>b, <1>c, Zenon DEF Send, GoOn, Goto, daemon, local, Owns, Issued
  <2>4. ASSUME NEW d \in Calls PROVE Retried(d)' /\ Closing(d)'
    BY <1>7, <1>b, <1>c, <1>d, Zenon DEF Send, GoOn, Goto, daemon, local, Idle, Owns, Issued, Retried, Closing
  <2>5. ASSUME NEW d \in Calls PROVE Ran(d)'
    BY <1>7, <1>e, Zenon DEF Send, GoOn, Goto, daemon, local, Ran
  <2>. QED  BY <2>1, <2>2, <2>3, <2>4, <2>5 DEF SocketInv
<1>8. ASSUME NEW c \in Calls, DaemonAnswer(c)
      PROVE  SocketInv'
  <2>1. Cached'
    BY <1>8, <1>a, <1>b, Zenon DEF DaemonAnswer, Answers, Goto, Cached, Owns
  <2>2. ASSUME NEW d \in Calls PROVE Idle(d)' /\ Owns(d)'
    BY <1>8, <1>a, <1>b, Zenon DEF DaemonAnswer, Answers, Goto, Cached, Idle, Owns
  <2>3. ASSUME NEW d \in Calls PROVE Issued(d)'
    BY <1>8, <1>b, <1>c DEF DaemonAnswer, Answers, Goto, Owns, Issued
  <2>4. ASSUME NEW d \in Calls PROVE Retried(d)' /\ Closing(d)'
    BY <1>8, <1>b, <1>c, <1>d, Zenon DEF DaemonAnswer, Answers, Goto, Idle, Owns, Issued, Retried, Closing
  <2>5. ASSUME NEW d \in Calls PROVE Ran(d)'
    BY <1>8, <1>e DEF DaemonAnswer, Answers, Goto, Ran
  <2>. QED  BY <2>1, <2>2, <2>3, <2>4, <2>5 DEF SocketInv
<1>9. ASSUME NEW c \in Calls, Receive(c)
      PROVE  SocketInv'
  <2>1. Cached'
    BY <1>9, <1>a, <1>b, Zenon DEF Receive, Reopens, Reopeners, Goto, daemon, Cached, Owns
  <2>2. ASSUME NEW d \in Calls PROVE Idle(d)' /\ Owns(d)'
    BY <1>9, <1>a, <1>b, Zenon DEF Receive, Reopens, Reopeners, Goto, daemon, Cached, Idle, Owns
  <2>3. ASSUME NEW d \in Calls PROVE Issued(d)'
    BY <1>9, <1>b, <1>c, Zenon DEF Receive, Reopens, Reopeners, Goto, daemon, Owns, Issued
  <2>4. ASSUME NEW d \in Calls PROVE Retried(d)' /\ Closing(d)'
    BY <1>9, <1>b, <1>c, <1>d DEF Receive, Reopens, Reopeners, Goto, daemon, Idle, Owns, Issued, Retried, Closing
  <2>5. ASSUME NEW d \in Calls PROVE Ran(d)'
    BY <1>9, <1>e, Zenon DEF Receive, Reopens, Reopeners, Goto, daemon, Ran
  <2>. QED  BY <2>1, <2>2, <2>3, <2>4, <2>5 DEF SocketInv
<1>10. ASSUME NEW c \in Calls, Return(c)
       PROVE  SocketInv'
  <2>1. Cached'
    BY <1>10, <1>a, <1>b, Zenon DEF Return, Finish, Goto, daemon, Cached, Owns
  <2>2. ASSUME NEW d \in Calls PROVE Idle(d)' /\ Owns(d)'
    BY <1>10, <1>a, <1>b DEF Return, Finish, Goto, daemon, Cached, Idle, Owns
  <2>3. ASSUME NEW d \in Calls PROVE Issued(d)'
    BY <1>10, <1>b, <1>c DEF Return, Finish, Goto, daemon, Owns, Issued
  <2>4. ASSUME NEW d \in Calls PROVE Retried(d)' /\ Closing(d)'
    BY <1>10, <1>b, <1>c, <1>d DEF Return, Finish, Goto, daemon, Idle, Owns, Issued, Retried, Closing
  <2>5. ASSUME NEW d \in Calls PROVE Ran(d)'
    BY <1>10, <1>e DEF Return, Finish, Goto, daemon, Ran
  <2>. QED  BY <2>1, <2>2, <2>3, <2>4, <2>5 DEF SocketInv
<1>11. ASSUME NEW c \in Calls, Fail(c)
       PROVE  SocketInv'
  <2>1. Cached'
    BY <1>11, <1>a, <1>b, Zenon DEF Fail, Finish, Goto, daemon, Cached, Owns
  <2>2. ASSUME NEW d \in Calls PROVE Idle(d)' /\ Owns(d)'
    BY <1>11, <1>a, <1>b, Zenon DEF Fail, Finish, Goto, daemon, Cached, Idle, Owns
  <2>3. ASSUME NEW d \in Calls PROVE Issued(d)'
    BY <1>11, <1>b, <1>c, Zenon DEF Fail, Finish, Goto, daemon, Owns, Issued
  <2>4. ASSUME NEW d \in Calls PROVE Retried(d)' /\ Closing(d)'
    BY <1>11, <1>b, <1>c, <1>d DEF Fail, Finish, Goto, daemon, Idle, Owns, Issued, Retried, Closing
  <2>5. ASSUME NEW d \in Calls PROVE Ran(d)'
    BY <1>11, <1>e, Zenon DEF Fail, Finish, Goto, daemon, Ran
  <2>. QED  BY <2>1, <2>2, <2>3, <2>4, <2>5 DEF SocketInv
<1>12. ASSUME NEW c \in Calls, Forget(c)
       PROVE  SocketInv'
  <2>1. Cached'
    BY <1>12, <1>a, <1>b, Zenon DEF Forget, Forgotten, GoOn, Goto, daemon, local, Cached, Owns
  <2>2. ASSUME NEW d \in Calls PROVE Idle(d)' /\ Owns(d)'
    BY <1>12, <1>a, <1>b DEF Forget, Forgotten, GoOn, Goto, daemon, local, Cached, Idle, Owns
  <2>3. ASSUME NEW d \in Calls PROVE Issued(d)'
    BY <1>12, <1>b, <1>c DEF Forget, Forgotten, GoOn, Goto, daemon, local, Owns, Issued
  <2>4. ASSUME NEW d \in Calls PROVE Retried(d)' /\ Closing(d)'
    BY <1>12, <1>b, <1>c, <1>d DEF Forget, Forgotten, GoOn, Goto, daemon, local, Idle, Owns, Issued, Retried, Closing
  <2>5. ASSUME NEW d \in Calls PROVE Ran(d)'
    BY <1>12, <1>e, Zenon DEF Forget, Forgotten, GoOn, Goto, daemon, local, Ran
  <2>. QED  BY <2>1, <2>2, <2>3, <2>4, <2>5 DEF SocketInv
<1>13. ASSUME NEW c \in Calls, Delete(c)
       PROVE  SocketInv'
  <2>1. Cached'
    BY <1>13, <1>a, <1>b DEF Delete, Forgotten, Finish, GoOn, Goto, daemon, local, Cached, Owns
  <2>2. ASSUME NEW d \in Calls PROVE Idle(d)' /\ Owns(d)'
    BY <1>13, <1>a, <1>b DEF Delete, Forgotten, Finish, GoOn, Goto, daemon, local, Cached, Idle, Owns
  <2>3. ASSUME NEW d \in Calls PROVE Issued(d)'
    BY <1>13, <1>b, <1>c DEF Delete, Forgotten, Finish, GoOn, Goto, daemon, local, Owns, Issued
  <2>4. ASSUME NEW d \in Calls PROVE Retried(d)' /\ Closing(d)'
    BY <1>13, <1>b, <1>c, <1>d DEF Delete, Forgotten, Finish, GoOn, Goto, daemon, local, Idle, Owns, Issued, Retried, Closing
  <2>5. ASSUME NEW d \in Calls PROVE Ran(d)'
    BY <1>13, <1>e DEF Delete, Forgotten, Finish, GoOn, Goto, daemon, local, Ran
  <2>. QED  BY <2>1, <2>2, <2>3, <2>4, <2>5 DEF SocketInv
<1>14. ASSUME NEW s \in live, Expire(s)
       PROVE  SocketInv'
  <2>1. Cached'
    BY <1>14, <1>a, <1>b, Zenon DEF Expire, local, Cached, Owns
  <2>2. ASSUME NEW d \in Calls PROVE Idle(d)' /\ Owns(d)'
    BY <1>14, <1>a, <1>b, Zenon DEF Expire, local, Cached, Idle, Owns
  <2>3. ASSUME NEW d \in Calls PROVE Issued(d)'
    BY <1>14, <1>b, <1>c, Zenon DEF Expire, local, Owns, Issued
  <2>4. ASSUME NEW d \in Calls PROVE Retried(d)' /\ Closing(d)'
    BY <1>14, <1>b, <1>c, <1>d, Zenon DEF Expire, local, Idle, Owns, Issued, Retried, Closing
  <2>5. ASSUME NEW d \in Calls PROVE Ran(d)'
    BY <1>14, <1>e, Zenon DEF Expire, local, Ran
  <2>. QED  BY <2>1, <2>2, <2>3, <2>4, <2>5, Zenon DEF SocketInv
<1>15. ASSUME UNCHANGED socketVars
       PROVE  SocketInv'
  <2>1. Cached'
    BY <1>15, <1>a, <1>b, Zenon DEF socketVars, daemon, local, Cached, Owns
  <2>2. ASSUME NEW d \in Calls PROVE Idle(d)' /\ Owns(d)'
    BY <1>15, <1>a, <1>b, Zenon DEF socketVars, daemon, local, Cached, Idle, Owns
  <2>3. ASSUME NEW d \in Calls PROVE Issued(d)'
    BY <1>15, <1>b, <1>c, Zenon DEF socketVars, daemon, local, Owns, Issued
  <2>4. ASSUME NEW d \in Calls PROVE Retried(d)' /\ Closing(d)'
    BY <1>15, <1>b, <1>c, <1>d, Zenon DEF socketVars, daemon, local, Idle, Owns, Issued, Retried, Closing
  <2>5. ASSUME NEW d \in Calls PROVE Ran(d)'
    BY <1>15, <1>e, Zenon DEF socketVars, daemon, local, Ran
  <2>. QED  BY <2>1, <2>2, <2>3, <2>4, <2>5, Zenon DEF SocketInv
<1>. QED
  BY <1>1, <1>2, <1>3, <1>4, <1>5, <1>6, <1>7, <1>8, <1>9, <1>10, <1>11,
     <1>12, <1>13, <1>14, <1>15, Zenon DEF SocketNext, CallStep

LEMMA SocketInitHolds == SocketInit => SocketTypeOK /\ SocketInv
<1>. SUFFICES ASSUME SocketInit PROVE SocketTypeOK /\ SocketInv
  BY Zenon
<1>. USE SocketAssumption, Names DEF NoSession, Nobody
<1>1. owner \in Seq(Identities) /\ live \subseteq Sessions
  BY DEF SocketInit
<1>a. /\ cache \in [Identities -> Sessions \cup {NoSession}]
      /\ sid \in [Calls -> Sessions \cup {NoSession}]
      /\ missed \in [Calls -> Sessions \cup {NoSession}]
      /\ who \in [Calls -> Identities \cup {Nobody}]
  BY Zenon DEF SocketInit
<1>b. /\ stage \in [Calls -> Places] /\ kind \in [Calls -> Kinds]
      /\ reply \in [Calls -> Replies] /\ result \in [Calls -> Results]
  BY Zenon DEF SocketInit
<1>c. attempt \in [Calls -> 0 .. 1] /\ ran \in [Calls -> Nat]
  BY DEF SocketInit
<1>2. SocketTypeOK
  BY <1>1, <1>a, <1>b, <1>c, Zenon DEF SocketTypeOK
<1>3. Cached
  BY Zenon DEF SocketInit, Cached
<1>4. ASSUME NEW c \in Calls
      PROVE  Idle(c) /\ Owns(c) /\ Issued(c) /\ Retried(c) /\ Closing(c) /\ Ran(c)
  BY DEF SocketInit, Idle, Owns, Issued, Retried, Closing, Ran, InSession
<1>. QED  BY <1>2, <1>3, <1>4, Zenon DEF SocketInv

-----------------------------------------------------------------------------
(* The places of every call, its attempt and its session, and what the     *)
(* cache and the calls know about the sessions, hold in every state.       *)
THEOREM SocketInvariant == SocketSpec => [](SocketTypeOK /\ SocketInv)
<1>1. SocketInit => SocketTypeOK /\ SocketInv
  BY SocketInitHolds, Zenon
<1>2. SocketTypeOK /\ SocketInv /\ [SocketNext]_socketVars => SocketTypeOK' /\ SocketInv'
  BY SocketTypeStep, SocketStep, Zenon
<1>. QED  BY <1>1, <1>2, PTL DEF SocketSpec

(* The type invariant of the client: a call is never past its second       *)
(* attempt, and every session it names was issued by the daemon.           *)
THEOREM SocketTypeCorrect == SocketSpec => []SocketTypeOK
BY SocketInvariant, PTL

(* open_session and _reopen give a call a session of its own identity.     *)
THEOREM SessionsAreOwn == SocketSpec => []OwnSession
<1>1. SocketInv => OwnSession
  BY Zenon DEF SocketInv, Cached, Owns, InSession, OwnSession
<1>. QED  BY <1>1, SocketInvariant, PTL

(* The retry after session_not_found is made in another session, in        *)
(* threads too.                                                            *)
THEOREM RetryInAnother == SocketSpec => []RetriesAnotherSession
<1>1. SocketInv => RetriesAnotherSession
  BY Zenon DEF SocketInv, Retried, RetriesAnotherSession
<1>. QED  BY <1>1, SocketInvariant, PTL

(* authorize, release_credential and the model calls send an operation     *)
(* again only when the daemon has not carried it out.                      *)
THEOREM Once == SocketSpec => []CarriedOutOnce
<1>1. SocketInv => CarriedOutOnce
  <2>1. ASSUME NEW c \in Calls, Ran(c) PROVE ran[c] <= 1
    BY <2>1 DEF Ran
  <2>. QED  BY <2>1, Zenon DEF SocketInv, CarriedOutOnce
<1>. QED  BY <1>1, SocketInvariant, PTL

(* close_session drops the session before it is ended on the daemon, and   *)
(* nothing brings it back.                                                 *)
THEOREM ClosedStaysOut == SocketSpec => []ClosedIsNotCached
<1>1. SocketInv => ClosedIsNotCached
  BY Zenon DEF SocketInv, Closing, ClosedIsNotCached
<1>. QED  BY <1>1, SocketInvariant, PTL

(* On one event loop one call at a time is between two accesses to the     *)
(* cache, and what it has compared is still what the cache holds.          *)
Accessing == {"lookup", "forget", "delete"}

OneAtATime ==
    /\ \A c, d \in Calls : stage[c] \in Accessing /\ stage[d] \in Accessing => c = d
    /\ \A c \in Calls : stage[c] = "delete" => cache[who[c]] = sid[c]

LEMMA OneAtATimeStep ==
    ~Threaded /\ SocketTypeOK /\ OneAtATime /\ [SocketNext]_socketVars => OneAtATime'
<1>. SUFFICES ASSUME ~Threaded, SocketTypeOK, OneAtATime, [SocketNext]_socketVars
              PROVE  OneAtATime'
  BY Zenon
<1>. USE DEF OneAtATime, Accessing, Turn
<1>t. /\ stage \in [Calls -> Places] /\ kind \in [Calls -> Kinds]
      /\ sid \in [Calls -> Sessions \cup {NoSession}]
      /\ who \in [Calls -> Identities \cup {Nobody}]
      /\ cache \in [Identities -> Sessions \cup {NoSession}]
  BY Zenon DEF SocketTypeOK
<1>1. ASSUME NEW c \in Calls, NEW k \in Kinds, NEW i \in Identities, Begin(c, k, i)
      PROVE  OneAtATime'
  BY <1>t, <1>1, Zenon DEF Begin, Goto, daemon
<1>2. ASSUME NEW c \in Calls, NEW k \in Operations, NEW s \in Sessions, Use(c, k, s)
      PROVE  OneAtATime'
  BY <1>t, <1>2, Zenon DEF Use, Goto, daemon
<1>3. ASSUME NEW i \in Identities, ForgetSession(i)
      PROVE  OneAtATime'
  BY <1>t, <1>3, Zenon DEF ForgetSession, daemon, local
<1>4. ASSUME NEW c \in Calls, Lookup(c)
      PROVE  OneAtATime'
  BY <1>t, <1>4 DEF Lookup, Opened, Finish, GoOn, Goto, local
<1>5. ASSUME NEW c \in Calls, DaemonPut(c)
      PROVE  OneAtATime'
  BY <1>t, <1>5, Zenon DEF DaemonPut, GoOn, Goto, local
<1>6. ASSUME NEW c \in Calls, Store(c)
      PROVE  OneAtATime'
  BY <1>t, <1>6 DEF Store, Opened, Finish, GoOn, Goto, local
<1>7. ASSUME NEW c \in Calls, Send(c)
      PROVE  OneAtATime'
  BY <1>t, <1>7, Zenon DEF Send, GoOn, Goto, local
<1>8. ASSUME NEW c \in Calls, DaemonAnswer(c)
      PROVE  OneAtATime'
  BY <1>t, <1>8, Zenon DEF DaemonAnswer, Goto
<1>9. ASSUME NEW c \in Calls, Receive(c)
      PROVE  OneAtATime'
  BY <1>t, <1>9, Zenon DEF Receive, Goto
<1>10. ASSUME NEW c \in Calls, Return(c)
       PROVE  OneAtATime'
  BY <1>t, <1>10 DEF Return, Finish, Goto
<1>11. ASSUME NEW c \in Calls, Fail(c)
       PROVE  OneAtATime'
  BY <1>t, <1>11, Zenon DEF Fail, Finish, Goto
<1>12. ASSUME NEW c \in Calls, Forget(c)
       PROVE  OneAtATime'
  BY <1>t, <1>12, Zenon DEF Forget, Forgotten, GoOn, Goto, local
<1>13. ASSUME NEW c \in Calls, Delete(c)
       PROVE  OneAtATime'
  BY <1>t, <1>13 DEF Delete, Forgotten, Finish, GoOn, Goto, local
<1>14. ASSUME NEW s \in live, Expire(s)
       PROVE  OneAtATime'
  BY <1>t, <1>14, Zenon DEF Expire, local
<1>15. ASSUME UNCHANGED socketVars
       PROVE  OneAtATime'
  BY <1>t, <1>15, Zenon DEF socketVars, local
<1>. QED
  BY <1>1, <1>2, <1>3, <1>4, <1>5, <1>6, <1>7, <1>8, <1>9, <1>10, <1>11,
     <1>12, <1>13, <1>14, <1>15, Zenon DEF SocketNext, CallStep

(* On one event loop _forget deletes only the entry it has compared: no    *)
(* other call runs between the two.                                        *)
THEOREM LoopKeepsReplacement == ~Threaded /\ SocketSpec => ReplacementIsKept
<1>. SUFFICES ASSUME ~Threaded PROVE SocketSpec => ReplacementIsKept
  BY Zenon
<1>1. SocketInit => OneAtATime
  BY Zenon DEF SocketInit, OneAtATime, Accessing
<1>2. SocketTypeOK /\ OneAtATime /\ [SocketNext]_socketVars => OneAtATime'
  BY OneAtATimeStep, Zenon
<1>3. OneAtATime /\ [SocketNext]_socketVars =>
        [\A c \in Calls : Delete(c) => cache[who[c]] \in {sid[c], NoSession}]_socketVars
  BY Zenon DEF OneAtATime, Delete
<1>. QED  BY <1>1, <1>2, <1>3, SocketTypeCorrect, PTL DEF SocketSpec, ReplacementIsKept

-----------------------------------------------------------------------------
(* How far a call is *)

(* The places of a call in the order it goes through them: close_session   *)
(* forgets the session before it sends, the others when they reopen it.    *)
Leg(k) ==
    IF k = "close"
    THEN [lookup |-> 1, put |-> 2, stored |-> 3, forget |-> 4, delete |-> 5,
          send |-> 6, sent |-> 7, answered |-> 8]
    ELSE [forget |-> 1, delete |-> 2, lookup |-> 3, put |-> 4, stored |-> 5,
          send |-> 6, sent |-> 7, answered |-> 8]

Progress(c) ==
    IF stage[c] = "idle" THEN 0 ELSE IF stage[c] = "done" THEN 17
    ELSE 8 * attempt[c] + Leg(kind[c])[stage[c]]

(* A step leaves a call alone or takes it further.                         *)
Further(c) ==
    \/ stage'[c] = stage[c] /\ attempt'[c] = attempt[c] /\ kind'[c] = kind[c]
    \/ Progress(c)' > Progress(c)

(* The ways from place to place: into a call, on within an attempt, to the *)
(* second attempt, and out.                                                *)
Ways(k) ==
    IF k = "close"
    THEN [lookup |-> {"put", "forget"}, put |-> {"stored"}, stored |-> {"forget"},
          forget |-> {"delete", "send"}, delete |-> {"send"},
          send |-> {"sent"}, sent |-> {"answered"}, answered |-> {}]
    ELSE [lookup |-> {"put", "send"}, put |-> {"stored"}, stored |-> {"send"},
          forget |-> {"delete", "lookup"}, delete |-> {"lookup"},
          send |-> {"sent"}, sent |-> {"answered"}, answered |-> {}]

Underway == Places \ {"idle", "done"}

Enters(c) == stage[c] = "idle" /\ stage'[c] \in Underway /\ attempt'[c] = attempt[c]

GoesOn(c) ==
    /\ stage[c] \in Underway /\ stage'[c] \in Ways(kind[c])[stage[c]]
    /\ attempt'[c] = attempt[c] /\ kind'[c] = kind[c]

TriesAgain(c) ==
    /\ stage[c] = "answered" /\ stage'[c] = "forget" /\ kind'[c] = kind[c]
    /\ attempt[c] = 0 /\ attempt'[c] = 1

Ends(c) == stage[c] \in Underway /\ stage'[c] = "done"

LEMMA LegBounded == \A k : \A place \in Underway : Leg(k)[place] \in 1 .. 8
BY DEF Leg, Underway, Places

LEMMA LegRises ==
    \A k : \A place \in Underway : \A next \in Ways(k)[place] :
        next \in Underway /\ Leg(k)[next] > Leg(k)[place]
<1>. TAKE k
<1>. TAKE place \in Underway
<1>1. CASE k = "close"
  BY <1>1 DEF Leg, Ways, Underway, Places
<1>2. CASE k # "close"
  BY <1>2 DEF Leg, Ways, Underway, Places
<1>. QED  BY <1>1, <1>2, Zenon

LEMMA WaysLeadFurther ==
    ASSUME SocketTypeOK, NEW c \in Calls,
           Enters(c) \/ GoesOn(c) \/ TriesAgain(c) \/ Ends(c)
    PROVE  Further(c)
<1>. DEFINE l == Leg(kind[c])[stage[c]]
            m == Leg(kind'[c])[stage'[c]]
<1>1. attempt[c] \in 0 .. 1
  BY Zenon DEF SocketTypeOK
<1>2. stage[c] = "idle" => Progress(c) = 0
  BY Zenon DEF Progress
<1>3. stage[c] \in Underway => l \in 1 .. 8 /\ Progress(c) = 8 * attempt[c] + l
  BY LegBounded, Zenon DEF Progress, Underway
<1>4. stage'[c] = "done" => Progress(c)' = 17
  BY Zenon DEF Progress
<1>5. stage'[c] \in Underway => m \in 1 .. 8 /\ Progress(c)' = 8 * attempt'[c] + m
  BY LegBounded, Zenon DEF Progress, Underway
<1>6. GoesOn(c) => stage'[c] \in Underway /\ m > l
  BY LegRises, Zenon DEF GoesOn
<1>7. "answered" \in Underway /\ "forget" \in Underway
  BY Zenon DEF Underway, Places
<1>. HIDE DEF l, m
<1>8. Progress(c)' > Progress(c)
  <2>1. CASE Enters(c)
    <3>1. Progress(c) = 0 /\ Progress(c)' = 8 * attempt[c] + m /\ m \in 1 .. 8
      BY <1>2, <1>5, <2>1, Zenon DEF Enters
    <3>. QED  BY <1>1, <3>1
  <2>2. CASE GoesOn(c)
    <3>1. /\ Progress(c) = 8 * attempt[c] + l /\ l \in 1 .. 8
          /\ Progress(c)' = 8 * attempt[c] + m /\ m \in 1 .. 8
      BY <1>3, <1>5, <1>6, <2>2, Zenon DEF GoesOn
    <3>2. m > l
      BY <1>6, <2>2, Zenon
    <3>. QED  BY <1>1, <3>1, <3>2
  <2>3. CASE TriesAgain(c)
    <3>1. /\ Progress(c) = 8 * 0 + l /\ l \in 1 .. 8
          /\ Progress(c)' = 8 * 1 + m /\ m \in 1 .. 8
      BY <1>3, <1>5, <1>7, <2>3, Zenon DEF TriesAgain
    <3>. QED  BY <3>1
  <2>4. CASE Ends(c)
    <3>1. Progress(c) = 8 * attempt[c] + l /\ l \in 1 .. 8 /\ Progress(c)' = 17
      BY <1>3, <1>4, <2>4, Zenon DEF Ends
    <3>. QED  BY <1>1, <3>1
  <2>. QED  BY <2>1, <2>2, <2>3, <2>4, Zenon
<1>. QED  BY <1>8, Zenon DEF Further

LEMMA WaysAre ==
    \A k : /\ "put" \in Ways(k)["lookup"] /\ "stored" \in Ways(k)["put"]
          /\ "sent" \in Ways(k)["send"] /\ "answered" \in Ways(k)["sent"]
          /\ "delete" \in Ways(k)["forget"]
          /\ (IF k = "close" THEN "forget" ELSE "send")
                \in Ways(k)["lookup"] \cap Ways(k)["stored"]
          /\ (IF k = "close" THEN "send" ELSE "lookup")
                \in Ways(k)["forget"] \cap Ways(k)["delete"]
BY DEF Ways

LEMMA FurtherStep ==
    SocketTypeOK /\ SocketInv /\ [SocketNext]_socketVars => \A c \in Calls : Further(c)
<1>. SUFFICES ASSUME SocketTypeOK, SocketInv, [SocketNext]_socketVars, NEW e \in Calls
              PROVE  Further(e)
  BY Zenon
<1>t. /\ stage \in [Calls -> Places] /\ kind \in [Calls -> Kinds]
      /\ attempt \in [Calls -> 0 .. 1]
  BY Zenon DEF SocketTypeOK
<1>u. /\ "lookup" \in Underway /\ "put" \in Underway /\ "stored" \in Underway
      /\ "send" \in Underway /\ "sent" \in Underway /\ "answered" \in Underway
      /\ "forget" \in Underway /\ "delete" \in Underway
  BY Zenon DEF Underway, Places
<1>1. ASSUME NEW c \in Calls, NEW k \in Kinds, NEW i \in Identities, Begin(c, k, i)
      PROVE  Further(e)
  <2>1. CASE c # e
    BY <1>t, <1>1, <2>1, Zenon DEF Begin, Goto, Further
  <2>2. CASE c = e
    <3>1. Enters(e)
      BY <1>t, <1>u, <1>1, <2>2, Zenon DEF Begin, Goto, Enters
    <3>. QED  BY <3>1, WaysLeadFurther, Zenon
  <2>. QED  BY <2>1, <2>2, Zenon
<1>2. ASSUME NEW c \in Calls, NEW k \in Operations, NEW s \in Sessions, Use(c, k, s)
      PROVE  Further(e)
  <2>1. CASE c # e
    BY <1>t, <1>2, <2>1, Zenon DEF Use, Goto, Further
  <2>2. CASE c = e
    <3>1. Enters(e)
      BY <1>t, <1>u, <1>2, <2>2, Zenon DEF Use, Goto, Enters
    <3>. QED  BY <3>1, WaysLeadFurther, Zenon
  <2>. QED  BY <2>1, <2>2, Zenon
<1>3. ASSUME NEW c \in Calls, Lookup(c) PROVE Further(e)
  <2>1. CASE c # e
    BY <1>t, <1>3, <2>1, Zenon DEF Lookup, Opened, Finish, GoOn, Goto, local, Further
  <2>2. CASE c = e
    <3>1. GoesOn(e) \/ Ends(e)
      BY <1>t, <1>u, <1>3, <2>2, WaysAre, Zenon DEF Lookup, Opened, Finish, GoOn, Goto, local, GoesOn, Ends
    <3>. QED  BY <3>1, WaysLeadFurther, Zenon
  <2>. QED  BY <2>1, <2>2, Zenon
<1>4. ASSUME NEW c \in Calls, DaemonPut(c) PROVE Further(e)
  <2>1. CASE c # e
    BY <1>t, <1>4, <2>1, Zenon DEF DaemonPut, GoOn, Goto, local, Further
  <2>2. CASE c = e
    <3>1. GoesOn(e)
      BY <1>t, <1>u, <1>4, <2>2, WaysAre, Zenon DEF DaemonPut, GoOn, Goto, local, GoesOn
    <3>. QED  BY <3>1, WaysLeadFurther, Zenon
  <2>. QED  BY <2>1, <2>2, Zenon
<1>5. ASSUME NEW c \in Calls, Store(c) PROVE Further(e)
  <2>1. CASE c # e
    BY <1>t, <1>5, <2>1, Zenon DEF Store, Opened, Finish, GoOn, Goto, local, Further
  <2>2. CASE c = e
    <3>1. GoesOn(e) \/ Ends(e)
      BY <1>t, <1>u, <1>5, <2>2, WaysAre, Zenon DEF Store, Opened, Finish, GoOn, Goto, local, GoesOn, Ends
    <3>. QED  BY <3>1, WaysLeadFurther, Zenon
  <2>. QED  BY <2>1, <2>2, Zenon
<1>6. ASSUME NEW c \in Calls, Send(c) PROVE Further(e)
  <2>1. CASE c # e
    BY <1>t, <1>6, <2>1, Zenon DEF Send, GoOn, Goto, local, Further
  <2>2. CASE c = e
    <3>1. GoesOn(e)
      BY <1>t, <1>u, <1>6, <2>2, WaysAre, Zenon DEF Send, GoOn, Goto, local, GoesOn
    <3>. QED  BY <3>1, WaysLeadFurther, Zenon
  <2>. QED  BY <2>1, <2>2, Zenon
<1>7. ASSUME NEW c \in Calls, DaemonAnswer(c) PROVE Further(e)
  <2>1. CASE c # e
    BY <1>t, <1>7, <2>1, Zenon DEF DaemonAnswer, Goto, Further
  <2>2. CASE c = e
    <3>1. GoesOn(e)
      BY <1>t, <1>u, <1>7, <2>2, WaysAre, Zenon DEF DaemonAnswer, Goto, GoesOn
    <3>. QED  BY <3>1, WaysLeadFurther, Zenon
  <2>. QED  BY <2>1, <2>2, Zenon
<1>8. ASSUME NEW c \in Calls, Receive(c) PROVE Further(e)
  <2>1. CASE c # e
    BY <1>t, <1>8, <2>1, Zenon DEF Receive, Reopens, Reopeners, Goto, Further
  <2>2. CASE c = e
    <3>1. attempt[e] = 0 /\ attempt'[e] = attempt[e] + 1
      BY <1>t, <1>8, <2>2, Zenon DEF Receive, Reopens
    <3>2. attempt'[e] = 1
      BY <3>1
    <3>3. TriesAgain(e)
      BY <1>t, <1>8, <2>2, <3>1, <3>2, Zenon DEF Receive, Goto, TriesAgain
    <3>. QED  BY <3>3, WaysLeadFurther, Zenon
  <2>. QED  BY <2>1, <2>2, Zenon
<1>9. ASSUME NEW c \in Calls, Return(c) PROVE Further(e)
  <2>1. CASE c # e
    BY <1>t, <1>9, <2>1, Zenon DEF Return, Finish, Goto, Further
  <2>2. CASE c = e
    <3>1. Ends(e)
      BY <1>t, <1>u, <1>9, <2>2, Zenon DEF Return, Finish, Goto, Ends
    <3>. QED  BY <3>1, WaysLeadFurther, Zenon
  <2>. QED  BY <2>1, <2>2, Zenon
<1>10. ASSUME NEW c \in Calls, Fail(c) PROVE Further(e)
  <2>1. CASE c # e
    BY <1>t, <1>10, <2>1, Zenon DEF Fail, Finish, Goto, Further
  <2>2. CASE c = e
    <3>1. Ends(e)
      BY <1>t, <1>u, <1>10, <2>2, Zenon DEF Fail, Finish, Goto, Ends
    <3>. QED  BY <3>1, WaysLeadFurther, Zenon
  <2>. QED  BY <2>1, <2>2, Zenon
<1>11. ASSUME NEW c \in Calls, Forget(c) PROVE Further(e)
  <2>1. CASE c # e
    BY <1>t, <1>11, <2>1, Zenon DEF Forget, Forgotten, GoOn, Goto, local, Further
  <2>2. CASE c = e
    <3>1. GoesOn(e)
      BY <1>t, <1>u, <1>11, <2>2, WaysAre, Zenon DEF Forget, Forgotten, GoOn, Goto, local, GoesOn
    <3>. QED  BY <3>1, WaysLeadFurther, Zenon
  <2>. QED  BY <2>1, <2>2, Zenon
<1>12. ASSUME NEW c \in Calls, Delete(c) PROVE Further(e)
  <2>1. CASE c # e
    BY <1>t, <1>12, <2>1, Zenon DEF Delete, Forgotten, Finish, GoOn, Goto, local, Further
  <2>2. CASE c = e
    <3>1. GoesOn(e) \/ Ends(e)
      BY <1>t, <1>u, <1>12, <2>2, WaysAre, Zenon DEF Delete, Forgotten, Finish, GoOn, Goto, local, GoesOn, Ends
    <3>. QED  BY <3>1, WaysLeadFurther, Zenon
  <2>. QED  BY <2>1, <2>2, Zenon
<1>13. CASE stage' = stage /\ attempt' = attempt /\ kind' = kind
  BY <1>13, Zenon DEF Further
<1>. QED
  BY <1>1, <1>2, <1>3, <1>4, <1>5, <1>6, <1>7, <1>8, <1>9, <1>10, <1>11, <1>12, <1>13, Zenon
  DEF SocketNext, CallStep, ForgetSession, Expire, socketVars, local

LEMMA ProgressBounded == SocketTypeOK => \A c \in Calls : Progress(c) \in 0 .. 17
<1>. SUFFICES ASSUME SocketTypeOK, NEW c \in Calls PROVE Progress(c) \in 0 .. 17
  BY Zenon
<1>1. attempt[c] \in 0 .. 1 /\ stage[c] \in Places
  BY Zenon DEF SocketTypeOK
<1>2. CASE stage[c] \in {"idle", "done"}
  BY <1>2 DEF Progress
<1>3. CASE stage[c] \in Underway
  <2>. DEFINE l == Leg(kind[c])[stage[c]]
  <2>1. l \in 1 .. 8 /\ Progress(c) = 8 * attempt[c] + l
    BY <1>3, LegBounded, Zenon DEF Progress, Underway
  <2>. HIDE DEF l
  <2>. QED  BY <1>1, <2>1
<1>. QED  BY <1>1, <1>2, <1>3, Zenon DEF Underway

(* Every operation on the client is a bounded number of steps: each step   *)
(* of a call, the reopening of its session included, takes it further on a *)
(* way of seventeen, whatever other calls do to the cache and the daemon   *)
(* to its sessions.  Only a call that is never run again does not return.  *)
THEOREM CallsMoveOn ==
    SocketSpec => /\ []\A c \in Calls : Progress(c) \in 0 .. 17
                  /\ [][\A c \in Calls : Further(c)]_socketVars
<1>. DEFINE Bounded == \A c \in Calls : Progress(c) \in 0 .. 17
            Steps == \A c \in Calls : Further(c)
<1>1. SocketTypeOK => Bounded
  BY ProgressBounded, Zenon
<1>2. SocketTypeOK /\ SocketInv /\ [SocketNext]_socketVars => [Steps]_socketVars
  BY FurtherStep, Zenon
<1>. HIDE DEF Bounded, Steps
<1>3. SocketSpec => []Bounded /\ [][Steps]_socketVars
  BY <1>1, <1>2, SocketInvariant, PTL DEF SocketSpec
<1>. QED  BY <1>3, Zenon DEF Bounded, Steps
=============================================================================
