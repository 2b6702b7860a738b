---------------------------- MODULE SockTransfer ----------------------------
(***************************************************************************)
(* The transfer loops of sock_utils.cpp: send_data and recv_data of        *)
(* SockServer and SockClient, in the blocking, the nonblocking and the     *)
(* timeout mode, on a nonblocking socket.  One thread makes one call after *)
(* the other on one connection; meanwhile the kernel makes room or data    *)
(* available, the peer may close, and the system calls may fail.           *)
(*                                                                         *)
(* Sizes are counted in units of the protocol, contents are left out.      *)
(* errno is the thread's: recv at end of file returns 0 and leaves it as   *)
(* it was.  The value a call has returned is the total_size of an idle     *)
(* thread.                                                                 *)
(***************************************************************************)
EXTENDS Integers

CONSTANTS
  Lens,       \* |len| arguments
  TIMEOUT_MS, \* |timeout_ms| argument (5 by default)
  Interrupts, \* may signals interrupt the system calls?
  MaxAvail    \* bound: units the kernel buffers

ASSUME TransferAssumption ==
  /\ Lens \subseteq Nat
  /\ TIMEOUT_MS \in Nat
  /\ Interrupts \in BOOLEAN
  /\ MaxAvail \in Nat

VARIABLES
  pc,          \* "idle", "loop" in a call, "sleep" in usleep
  op,          \* "send" or "recv"
  mode,        \* the work mode of the call
  len,         \* argument of the call
  p_src,       \* units the buffer pointer has moved
  left_size, total_size, retry_count,
  errno,
  avail,       \* units the socket can take (send) or has (recv)
  eof,         \* the peer has closed the connection
  moved,       \* history: units moved by the system calls of this call
  sleeps,      \* history: usleep calls of this timeout call, up to MaxSleeps
  failed       \* history: did a system call of this call fail for good?

callVars == <<op, mode, len>>
loopVars == <<p_src, left_size, total_size, retry_count>>
sockVars == <<avail, eof>>
histVars == <<moved, sleeps, failed>>
vars == <<pc, callVars, loopVars, errno, sockVars, histVars>>

Modes == {"BLOCK", "NONBLOCK", "TIMEOUT"}
Errnos == {"0", "EINTR", "EAGAIN", "EPIPE"}

\* More sleeps than this are not counted; no call should get so far.
MaxSleeps == TIMEOUT_MS + 2

Init ==
  /\ pc = "idle"
  /\ op = "recv"
  /\ mode = "BLOCK"
  /\ len = 0
  /\ p_src = 0
  /\ left_size = 0
  /\ total_size = 0
  /\ retry_count = 0
  /\ errno = "0"
  /\ avail = 0
  /\ eof = FALSE
  /\ moved = 0
  /\ sleeps = 0
  /\ failed = FALSE

-----------------------------------------------------------------------------
\* The four functions: the locals they start with.

Call(o, n, m) ==
  /\ pc' = "loop"
  /\ op' = o
  /\ mode' = m
  /\ len' = n
  /\ p_src' = 0
  /\ left_size' = n
  /\ retry_count' = TIMEOUT_MS
  /\ total_size' = 0
  /\ moved' = 0
  /\ sleeps' = 0
  /\ failed' = FALSE
  /\ UNCHANGED <<errno, sockVars>>

\* There is no server, or no client: -1 is returned.
Invalid ==
  /\ total_size' = -1
  /\ UNCHANGED <<pc, callVars, p_src, left_size, retry_count, errno, sockVars, histVars>>

SockServer_send_data(n, m) == pc = "idle" /\ (Invalid \/ Call("send", n, m))
SockServer_recv_data(n, m) == pc = "idle" /\ (Invalid \/ Call("recv", n, m))

\* SockClient's versions run the same loops.
SockClient_send_data(n, m) == pc = "idle" /\ (Invalid \/ Call("send", n, m))
SockClient_recv_data(n, m) == pc = "idle" /\ (Invalid \/ Call("recv", n, m))

-----------------------------------------------------------------------------
\* The system calls.

\* while (left_size > 0): a further system call is made.
Looping == pc = "loop" /\ (left_size > 0 \/ mode = "NONBLOCK")

\* (Seeded fault: the rest is sent from the start of the buffer again.)
advance_without_pointer(ret) ==
  /\ left_size' = left_size - ret
  /\ UNCHANGED p_src
  /\ total_size' = total_size + ret

\* left_size -= ret; p_src += ret; total_size += ret
advance(ret) ==
  /\ left_size' = left_size - ret
  /\ p_src' = p_src + ret
  /\ total_size' = total_size + ret

\* send or recv moves some units.
transfer(ret) ==
  /\ Looping
  /\ mode # "NONBLOCK"
  /\ ret \in 1 .. avail
  /\ ret =< left_size
  /\ op = "send" => ~eof
  /\ avail' = avail - ret
  /\ advance(ret)
  /\ moved' = moved + ret
  /\ UNCHANGED <<pc, callVars, retry_count, errno, eof, sleeps, failed>>

\* SOCK_NONBLOCK_MODE: one system call, whose result is returned.
transfer_once(ret) ==
  /\ Looping
  /\ mode = "NONBLOCK"
  /\ ret \in 0 .. avail
  /\ ret =< left_size
  /\ ret > 0 \/ left_size = 0 \/ (op = "recv" /\ eof /\ avail = 0)
  /\ op = "send" => ~eof
  /\ avail' = avail - ret
  /\ total_size' = ret
  /\ moved' = ret
  /\ pc' = "idle"
  /\ UNCHANGED <<callVars, p_src, left_size, retry_count, errno, eof, sleeps, failed>>

\* (Seeded faults: EAGAIN is taken for an error; whatever failed is retried.)
Retriable_only_eintr(e) == e = "EINTR"
Retriable_all(e) == e \in Errnos

\* (errno == EINTR) || (errno == EAGAIN) || (errno == EWOULDBLOCK), the last
\* two being the same number on Linux.
Retriable(e) == e \in {"EINTR", "EAGAIN"}

\* (Seeded fault: the last retry is not made.)
retries_left_off_by_one == retry_count > 0

\* !((retry_count--) < 0)
retries_left == retry_count >= 0

\* (Seeded fault: the retries are not counted.)
RetryCount_kept(e) == retry_count

\* retry_count after a system call that failed with e.
RetryCount(e) ==
  IF mode = "TIMEOUT" /\ Retriable(e) THEN retry_count - 1 ELSE retry_count

\* A system call returned ret <= 0 and errno is e: sleep and try again, or
\* leave the loop.
call_failed(e) ==
  /\ errno' = e
  /\ failed' = (e \notin {"EINTR", "EAGAIN"})
  /\ IF mode = "NONBLOCK"
     THEN /\ pc' = "idle"
          /\ total_size' = -1
          /\ UNCHANGED <<retry_count, sleeps>>
     ELSE /\ retry_count' = RetryCount(e)
          /\ IF Retriable(e) /\ (mode = "BLOCK" \/ retries_left)
             THEN /\ pc' = "sleep"
                  /\ sleeps' = IF mode = "TIMEOUT" /\ sleeps < MaxSleeps
                               THEN sleeps + 1 ELSE sleeps
             ELSE /\ pc' = "idle"
                  /\ UNCHANGED sleeps
          /\ UNCHANGED total_size
  /\ UNCHANGED <<callVars, p_src, left_size, sockVars, moved>>

would_block ==
  /\ Looping
  /\ avail = 0
  /\ ~eof
  /\ call_failed("EAGAIN")

interrupted ==
  /\ Looping
  /\ Interrupts
  /\ call_failed("EINTR")

\* A reset connection, or send to a peer that has closed.
socket_error ==
  /\ Looping
  /\ eof
  /\ call_failed("EPIPE")

\* recv returns 0 at end of file; errno is whatever it was.
recv_eof ==
  /\ Looping
  /\ op = "recv"
  /\ eof
  /\ avail = 0
  /\ mode # "NONBLOCK"
  /\ call_failed(errno)

wake_up ==
  /\ pc = "sleep"
  /\ pc' = "loop"
  /\ UNCHANGED <<callVars, loopVars, errno, sockVars, histVars>>

\* The loop is over: total_size is returned.
all_moved ==
  /\ pc = "loop"
  /\ left_size = 0
  /\ mode # "NONBLOCK"
  /\ pc' = "idle"
  /\ UNCHANGED <<callVars, loopVars, errno, sockVars, histVars>>

Step ==
  \/ \E ret \in 0 .. MaxAvail : transfer(ret) \/ transfer_once(ret)
  \/ would_block
  \/ interrupted
  \/ socket_error
  \/ recv_eof
  \/ wake_up
  \/ all_moved

\* The kernel and the peer.
make_available ==
  /\ avail < MaxAvail
  /\ ~eof
  /\ avail' = avail + 1
  /\ UNCHANGED <<pc, callVars, loopVars, errno, eof, histVars>>

peer_close ==
  /\ ~eof
  /\ eof' = TRUE
  /\ UNCHANGED <<pc, callVars, loopVars, errno, avail, histVars>>

Next ==
  \/ \E n \in Lens, m \in Modes :
       \/ SockServer_send_data(n, m) \/ SockServer_recv_data(n, m)
       \/ SockClient_send_data(n, m) \/ SockClient_recv_data(n, m)
  \/ Step
  \/ make_available
  \/ peer_close

Spec == Init /\ [][Next]_vars

\* The calling thread runs; the peer and the kernel need not do anything.
FairSpec == Spec /\ WF_vars(Step)

-----------------------------------------------------------------------------
\* Properties.

\* Type invariant of the transfer loops.
TypeOK ==
  /\ pc \in {"idle", "loop", "sleep"}
  /\ op \in {"send", "recv"}
  /\ mode \in Modes
  /\ len \in Nat
  /\ p_src \in Nat
  /\ left_size \in Nat
  /\ total_size \in Nat \cup {-1}
  /\ retry_count \in Int
  /\ errno \in Errnos
  /\ avail \in Nat
  /\ eof \in BOOLEAN
  /\ moved \in Nat
  /\ sleeps \in 0 .. MaxSleeps
  /\ failed \in BOOLEAN

\* Short counts, interruptions and retries never lose or repeat a part of
\* the buffer: all through the loops of send_data and recv_data the pointer,
\* what is left and the total agree with what the system calls moved.
NothingLostOrRepeated ==
  pc # "idle" =>
    /\ p_src = moved
    /\ total_size = moved
    /\ left_size = len - moved

\* The step that returns from a loop that has not moved everything.
ReturnsShort(m) ==
  /\ mode = m
  /\ pc = "loop"
  /\ pc' = "idle"
  /\ total_size' < len

\* SOCK_BLOCK_MODE returns less than was asked for only after an error other
\* than EINTR and EAGAIN, however often the call had to wait.
BlockMovesAll == [][ReturnsShort("BLOCK") => failed']_vars

\* SOCK_TIMEOUT_MODE gives up only after an error or after timeout_ms + 1
\* sleeps of 1 ms ...
TimeoutIsUsed == [][ReturnsShort("TIMEOUT") => failed' \/ sleeps = TIMEOUT_MS + 1]_vars

\* ... and never sleeps more often, although data may trickle in between.
TimeoutIsBounded == sleeps =< TIMEOUT_MS + 1

\* Once the peer has closed the connection there is nothing to wait for and
\* recv_data returns, in every mode, unless errno still says EINTR or EAGAIN
\* from an earlier round: recv does not set it at end of file, and a blocking
\* call then waits for ever.
RecvEndsUnlessStale ==
  (op = "recv" /\ pc # "idle" /\ eof) ~> (pc = "idle" \/ errno \in {"EINTR", "EAGAIN"})

-----------------------------------------------------------------------------
\* The inductive invariant behind these properties.

\* During a call, what is left has been asked for and not moved; the retries
\* that are left and those that were made add up to the timeout.
LoopInv ==
  /\ NothingLostOrRepeated
  /\ pc # "idle" /\ mode = "TIMEOUT" =>
       retry_count = TIMEOUT_MS - sleeps /\ retry_count >= -1
  /\ pc # "idle" /\ mode # "TIMEOUT" => sleeps = 0

IInv == TypeOK /\ LoopInv /\ TimeoutIsBounded
=============================================================================
