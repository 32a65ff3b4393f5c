------------------------------ MODULE MCSched ------------------------------
(* Workloads for Sched: the calls some programs make and the signals they use. *)
EXTENDS Sched

Load(tasks, ops, sigs) == [tasks |-> tasks, ops |-> ops, sigs |-> sigs \cup {SIGCHLD}]

\* Processes and threads, every way to block and every way to end but a signal.
Lives ==
  Load(2, {"launch", "kill_all", "fork", "clone", "exit", "thread_exit", "detach", "waitpid",
        "wait", "sleep", "pause", "fault", "yield", "preempt"}, {})
\* Alarms and kills against tasks that cooperate.
Alarming ==
  Load(2, {"launch", "fork", "exit", "alarm", "yield", "kill", "sleep", "waitpid"}, {SIGALRM})
\* Stops, masked and not, with preemption.
Stopping ==
  Load(2, {"launch", "fork", "exit", "kill", "yield", "sigmask", "preempt"}, {SIGTSTP})
\* Handlers and sigsuspend.
Handling ==
  Load(2, {"launch", "fork", "exit", "yield", "sigaction", "sigsuspend", "kill"}, {})

\* Processes that wait for each other and end by exit or fault.
Waiting ==
  Load(3, {"launch", "fork", "exit", "waitpid", "wait", "fault"}, {})

TaskLoads == {Lives, Alarming, Stopping, Handling, Waiting}

\* A child waited for dies of an alarm.
AlarmLoads == {Load(2, {"launch", "fork", "alarm", "waitpid", "yield"}, {SIGALRM})}

=============================================================================
