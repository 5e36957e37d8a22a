------------------------------- MODULE MCKernel -------------------------------
(***************************************************************************)
(* The programs that live with the kernel's wait queues, one at a time.    *)
(* The mutex: three processes, so that one can take it between the release *)
(* and the wake-up of another, and two rounds each.  The echo servers: two *)
(* clients, bytes that come in one piece or in two, a send buffer smaller  *)
(* than what is read, and a submission ring that two connections fill.     *)
(***************************************************************************)
EXTENDS FutexMutex, EchoServers

VARIABLE program
kernelVars == <<program, vars, echoVars>>

KernelInit == program \in {"futex", "echo"} /\ Init /\ EchoInit

Futex(A) == program = "futex" /\ A /\ UNCHANGED <<program, echoVars>>
Echoes(A) == program = "echo" /\ A /\ UNCHANGED <<program, vars>>
KernelNext == Futex(Next) \/ Echoes(EchoNext)

\* The fairness of FairSpec and of EchoSpec.
KernelFairness ==
  /\ \A p \in Proc : WF_kernelVars(Futex(Step(p)))
  /\ WF_kernelVars(Echoes(Epoll(EpServer)))
  /\ WF_kernelVars(Echoes(IoUring(IoServer)))
  /\ \A c \in Clients : WF_kernelVars(Echoes(IoUring(Completes(c))))
KernelSpec == KernelInit /\ [][KernelNext]_kernelVars /\ KernelFairness

(***************************************************************************)
(* AllTerminate: nobody is left asleep or spinning; every process that     *)
(* shares the mutex gets it in each of its rounds and exits for good (lock *)
(* and unlock, futex_mutex.hpp:25-56).                                     *)
(***************************************************************************)
AllTerminate == []<>(program = "futex" => AllExited)
=============================================================================
