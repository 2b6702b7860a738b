-------------------------- MODULE SockTransfer_proofs --------------------------
(* Theorems about the transfer loops, for every length and timeout.        *)
EXTENDS SockTransfer, TLAPS

\* Before the first call.
LEMMA IInvInit == Init => IInv
<1> SUFFICES ASSUME Init PROVE IInv
  OBVIOUS
<1>1. 0 \in 0 .. MaxSleeps /\ 0 =< TIMEOUT_MS + 1
  BY TransferAssumption DEF MaxSleeps
<1>2. eof \in BOOLEAN /\ failed \in BOOLEAN
  BY Zenon DEF Init
<1>3. mode \in Modes /\ errno \in Errnos
  BY DEF Init, Modes, Errnos
<1>4. /\ pc \in {"idle", "loop", "sleep"} /\ op \in {"send", "recv"}
      /\ len \in Nat /\ p_src \in Nat /\ left_size \in Nat /\ total_size \in Nat \cup {-1}
      /\ retry_count \in Int /\ avail \in Nat /\ moved \in Nat /\ sleeps \in 0 .. MaxSleeps
  BY <1>1 DEF Init
<1>5. TypeOK
  BY <1>2, <1>3, <1>4 DEF TypeOK
<1>6. LoopInv
  BY DEF Init, LoopInv, NothingLostOrRepeated
<1>7. TimeoutIsBounded
  BY <1>1 DEF Init, TimeoutIsBounded
<1> QED
  BY <1>5, <1>6, <1>7 DEF IInv

\* A system call that moves nothing: the loop sleeps, counting its retries,
\* or ends.
LEMMA FailedStep ==
  ASSUME IInv, NEW e \in Errnos, pc = "loop", call_failed(e)
  PROVE  IInv'
<1> USE TransferAssumption DEF IInv, callVars, sockVars
<1>1. /\ TypeOK /\ pc' \in {"idle", "sleep"} /\ errno' = e
      /\ UNCHANGED <<op, mode, len, p_src, left_size, avail, eof, moved>>
      /\ failed' \in BOOLEAN
  BY DEF call_failed
<1>2. CASE pc' = "idle"
  <2>1. /\ total_size' \in Nat \cup {-1} /\ retry_count' \in Int /\ sleeps' = sleeps
    BY <1>1, <1>2 DEF call_failed, RetryCount, TypeOK
  <2> QED
    BY <1>1, <1>2, <2>1 DEF TypeOK, LoopInv, NothingLostOrRepeated, TimeoutIsBounded
<1>3. CASE pc' = "sleep"
  <2>1. /\ mode \in {"BLOCK", "TIMEOUT"} /\ total_size' = total_size
        /\ Retriable(e) /\ (mode = "TIMEOUT" => retry_count >= 0)
        /\ retry_count' = RetryCount(e)
        /\ sleeps' = IF mode = "TIMEOUT" /\ sleeps < MaxSleeps THEN sleeps + 1 ELSE sleeps
    BY <1>1, <1>3 DEF call_failed, retries_left, TypeOK, Modes
  <2>2. CASE mode = "TIMEOUT"
    <3>1. /\ retry_count = TIMEOUT_MS - sleeps /\ sleeps \in Nat /\ retry_count >= 0
          /\ retry_count \in Int
      BY <2>1, <2>2 DEF LoopInv, TypeOK
    <3>2. sleeps' = sleeps + 1 /\ retry_count' = retry_count - 1
      BY <2>1, <2>2, <3>1 DEF RetryCount, MaxSleeps
    <3> QED
      BY <1>1, <1>3, <2>1, <2>2, <3>1, <3>2
         DEF TypeOK, LoopInv, NothingLostOrRepeated, TimeoutIsBounded, MaxSleeps
  <2>3. CASE mode # "TIMEOUT"
    <3>1. sleeps' = sleeps /\ retry_count' = retry_count
      BY <2>1, <2>3 DEF RetryCount
    <3> QED
      BY <1>1, <1>3, <2>1, <2>3, <3>1
         DEF TypeOK, LoopInv, NothingLostOrRepeated, TimeoutIsBounded, MaxSleeps
  <2> QED
    BY <2>2, <2>3
<1> QED
  BY <1>1, <1>2, <1>3

\* Every step of the caller, the kernel and the peer preserves IInv.
LEMMA IInvStep == IInv /\ [Next]_vars => IInv'
<1> SUFFICES ASSUME IInv, [Next]_vars PROVE IInv'
  OBVIOUS
<1> USE TransferAssumption DEF IInv, callVars, loopVars, sockVars, histVars
<1>1. ASSUME NEW o \in {"send", "recv"}, NEW n \in Lens, NEW m \in Modes, Call(o, n, m)
      PROVE  IInv'
  <2>1. n \in Nat /\ n - 0 = n /\ TIMEOUT_MS - 0 = TIMEOUT_MS
    OBVIOUS
  <2>2. /\ pc' = "loop" /\ op' = o /\ mode' = m /\ len' = n
        /\ p_src' = 0 /\ left_size' = n /\ total_size' = 0 /\ retry_count' = TIMEOUT_MS
        /\ errno' = errno /\ avail' = avail /\ eof' = eof
        /\ moved' = 0 /\ sleeps' = 0 /\ failed' = FALSE
    BY <1>1 DEF Call
  <2>3. 0 \in 0 .. MaxSleeps /\ MaxSleeps' = MaxSleeps
    BY DEF MaxSleeps
  <2>4. eof' \in BOOLEAN /\ failed' \in BOOLEAN
    BY <2>2, Zenon DEF TypeOK
  <2>5. TypeOK'
    BY <2>1, <2>2, <2>3, <2>4 DEF TypeOK
  <2> QED
    BY <1>1, <2>1, <2>5 DEF Call, LoopInv, NothingLostOrRepeated, TimeoutIsBounded
<1>2. CASE pc = "idle" /\ Invalid
  BY <1>2 DEF Invalid, TypeOK, LoopInv, NothingLostOrRepeated, TimeoutIsBounded
<1>3. ASSUME NEW ret \in 0 .. MaxAvail, transfer(ret) PROVE IInv'
  <2>1. /\ pc = "loop" /\ ret \in Nat /\ ret =< left_size /\ ret =< avail
        /\ avail' = avail - ret /\ left_size' = left_size - ret
        /\ p_src' = p_src + ret /\ total_size' = total_size + ret
        /\ moved' = moved + ret
        /\ UNCHANGED <<pc, op, mode, len, retry_count, errno, eof, sleeps, failed>>
    BY <1>3 DEF transfer, Looping, advance, TypeOK
  <2>2. p_src = moved /\ total_size = moved /\ left_size = len - moved
    BY <2>1 DEF LoopInv, NothingLostOrRepeated
  <2>3. TypeOK'
    BY <2>1, <2>2 DEF TypeOK
  <2>4. p_src' = moved' /\ total_size' = moved' /\ left_size' = len' - moved'
    BY <2>1, <2>2 DEF TypeOK
  <2> QED
    BY <2>1, <2>3, <2>4 DEF LoopInv, NothingLostOrRepeated, TimeoutIsBounded
<1>4. ASSUME NEW ret \in 0 .. MaxAvail, transfer_once(ret) PROVE IInv'
  <2>1. /\ pc' = "idle" /\ total_size' = ret /\ moved' = ret /\ avail' = avail - ret
        /\ ret \in Nat /\ ret =< avail
        /\ UNCHANGED <<op, mode, len, p_src, left_size, retry_count, errno, eof,
                       sleeps, failed>>
    BY <1>4 DEF transfer_once, TypeOK
  <2> QED
    BY <2>1 DEF TypeOK, LoopInv, NothingLostOrRepeated, TimeoutIsBounded
<1>5. CASE would_block \/ interrupted \/ socket_error \/ recv_eof
  <2>1. PICK e \in Errnos : pc = "loop" /\ call_failed(e)
    <3>1. errno \in Errnos /\ "EAGAIN" \in Errnos /\ "EINTR" \in Errnos /\ "EPIPE" \in Errnos
      BY DEF TypeOK, Errnos
    <3> QED
      BY <1>5, <3>1 DEF would_block, interrupted, socket_error, recv_eof, Looping
  <2> QED
    BY <2>1, FailedStep
<1>6. CASE wake_up \/ all_moved
  <2>1. /\ pc # "idle" /\ pc' \in {"idle", "loop"}
        /\ UNCHANGED <<op, mode, len, p_src, left_size, total_size, retry_count, errno,
                       avail, eof, moved, sleeps, failed>>
    BY <1>6 DEF wake_up, all_moved
  <2>2. TypeOK'
    BY <2>1 DEF TypeOK, MaxSleeps
  <2> QED
    BY <2>1, <2>2 DEF LoopInv, NothingLostOrRepeated, TimeoutIsBounded
<1>7. CASE make_available \/ peer_close
  <2>1. /\ avail' \in {avail, avail + 1}
        /\ UNCHANGED <<pc, op, mode, len, p_src, left_size, total_size, retry_count, errno,
                       moved, sleeps, failed>>
    BY <1>7 DEF make_available, peer_close
  <2>2. eof' \in BOOLEAN
    BY <1>7, Zenon DEF make_available, peer_close, TypeOK
  <2>3. TypeOK'
    BY <2>1, <2>2 DEF TypeOK, MaxSleeps
  <2> QED
    BY <2>1, <2>3 DEF LoopInv, NothingLostOrRepeated, TimeoutIsBounded
<1>8. CASE UNCHANGED vars
  BY <1>8 DEF vars, TypeOK, LoopInv, NothingLostOrRepeated, TimeoutIsBounded
<1>9. ASSUME NEW n \in Lens, NEW m \in Modes,
             \/ SockServer_send_data(n, m) \/ SockServer_recv_data(n, m)
             \/ SockClient_send_data(n, m) \/ SockClient_recv_data(n, m)
      PROVE  IInv'
  BY <1>1, <1>2, <1>9 DEF SockServer_send_data, SockServer_recv_data,
                          SockClient_send_data, SockClient_recv_data
<1> QED
  BY <1>3, <1>4, <1>5, <1>6, <1>7, <1>8, <1>9 DEF Next, Step

\* IInv is an invariant of the transfer loops.
THEOREM TransferInvariant == Spec => []IInv
BY IInvInit, IInvStep, PTL DEF Spec

\* The loops keep their types: left_size never drops below 0.
THEOREM TransferTypes == Spec => []TypeOK
<1>1. IInv => TypeOK
  BY DEF IInv
<1> QED
  BY <1>1, TransferInvariant, PTL

\* The pointer, the rest and the total always agree with what was moved.
THEOREM AccountsAgree == Spec => []NothingLostOrRepeated
<1>1. IInv => NothingLostOrRepeated
  BY DEF IInv, LoopInv
<1> QED
  BY <1>1, TransferInvariant, PTL

\* A timeout call sleeps at most timeout_ms + 1 times.
THEOREM TimeoutBound == Spec => []TimeoutIsBounded
<1>1. IInv => TimeoutIsBounded
  BY DEF IInv
<1> QED
  BY <1>1, TransferInvariant, PTL

\* The step that returns short has failed, or has used up its retries.
LEMMA ShortReturn ==
  ASSUME IInv, [Next]_vars, NEW m \in {"BLOCK", "TIMEOUT"}, ReturnsShort(m)
  PROVE  failed' \/ (m = "TIMEOUT" /\ sleeps = TIMEOUT_MS + 1)
<1> USE TransferAssumption DEF IInv
<1>1. /\ mode = m /\ pc = "loop" /\ pc' = "idle" /\ total_size' < len
  BY DEF ReturnsShort
<1>2. /\ mode # "NONBLOCK"
      /\ \/ all_moved
         \/ \E e \in Errnos : call_failed(e)
  <2>1. errno \in Errnos /\ "EAGAIN" \in Errnos /\ "EINTR" \in Errnos /\ "EPIPE" \in Errnos
    BY DEF TypeOK, Errnos
  <2> QED
    BY <1>1, <2>1
       DEF Next, Step, SockServer_send_data, SockServer_recv_data, SockClient_send_data,
           SockClient_recv_data, transfer, transfer_once, would_block, interrupted,
           socket_error, recv_eof, wake_up, make_available, peer_close, vars
<1>3. ~all_moved
  <2>1. total_size = len - left_size /\ len \in Nat
    BY <1>1 DEF LoopInv, NothingLostOrRepeated, TypeOK
  <2> QED
    BY <1>1, <2>1 DEF all_moved, loopVars
<1>4. PICK e \in Errnos : call_failed(e)
  BY <1>2, <1>3
<1>5. CASE Retriable(e)
  <2>1. m = "TIMEOUT" /\ ~(retry_count >= 0)
    BY <1>1, <1>2, <1>4, <1>5 DEF call_failed, retries_left
  <2>2. /\ retry_count = TIMEOUT_MS - sleeps /\ retry_count >= -1
        /\ retry_count \in Int /\ sleeps \in Nat
    BY <1>1, <2>1 DEF LoopInv, TypeOK
  <2> QED
    BY <2>1, <2>2
<1>6. CASE ~Retriable(e)
  BY <1>4, <1>6 DEF call_failed, Retriable
<1> QED
  BY <1>5, <1>6

\* The blocking mode gives up on errors only.
THEOREM BlockGivesUpOnErrors == Spec => BlockMovesAll
<1>1. IInv /\ [Next]_vars => [ReturnsShort("BLOCK") => failed']_vars
  BY ShortReturn
<1> QED
  BY <1>1, TransferInvariant, PTL DEF Spec, BlockMovesAll

\* The timeout mode gives up on errors or when the time is used up.
THEOREM TimeoutGivesUpLate == Spec => TimeoutIsUsed
<1>1. IInv /\ [Next]_vars
        => [ReturnsShort("TIMEOUT") => failed' \/ sleeps = TIMEOUT_MS + 1]_vars
  BY ShortReturn
<1> QED
  BY <1>1, TransferInvariant, PTL DEF Spec, TimeoutIsUsed
=============================================================================
