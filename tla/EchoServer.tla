----------------------------- MODULE EchoServer ----------------------------
(***************************************************************************)
(* samples/echo_server.c: a server that gives each client its lines back,  *)
(* one client at a time.  A step is a system call with what the program    *)
(* does up to the next one.  The kernel's answers (kernel/net.inc) are     *)
(* chosen: any call may fail, and recv may have nothing yet.               *)
(***************************************************************************)
EXTENDS Caller, Integers

Fds == 3 .. 5                       \* the descriptors the kernel has for sockets
RecvResults == {"none", "text", "blank"} \* what recv leaves in recv_buf: "blank" is only CR and LF

\* open: the sockets the kernel keeps for the program; buf: the line recv_buf holds.
EchoStart == [fn |-> "echo", at |-> "socket", server_fd |-> -1, client_fd |-> -1,
              open |-> {}, buf |-> "none"]

\* The kernel's answer to socket and accept: a free descriptor, or -1.
Granted == {-1} \cup (Fds \ call.open)

sys_socket ==
  /\ call.fn = "echo" /\ call.at = "socket"
  /\ \E fd \in Granted :
       Loops("echo", [call EXCEPT !.server_fd = fd, !.open = @ \cup ({fd} \ {-1}),
                                  !.at = IF fd < 0 THEN "failed" ELSE "bind"])

\* bind and listen: on an error the socket is closed before the program returns.
Attempts(step, next) ==
  /\ call.fn = "echo" /\ call.at = step
  /\ \E n \in {-1, 0} :
       Loops("echo", IF n < 0 THEN [call EXCEPT !.open = @ \ {call.server_fd}, !.at = "failed"]
                     ELSE [call EXCEPT !.at = next])
sys_bind == Attempts("bind", "listen")
sys_listen == Attempts("listen", "accept")
EchoFails == call.fn = "echo" /\ call.at = "failed" /\ Returns("echo", 1)

sys_accept ==
  /\ call.fn = "echo" /\ call.at = "accept"
  /\ \E fd \in Granted :
       Loops("echo", [call EXCEPT !.client_fd = fd, !.open = @ \cup ({fd} \ {-1}),
                                  !.at = IF fd < 0 THEN "accept" ELSE "recv"])

\* handle_client: nothing received, whatever the reason, ends the session.
sys_recv ==
  /\ call.fn = "echo" /\ call.at = "recv"
  /\ \E got \in RecvResults :
       Loops("echo", [call EXCEPT !.buf = IF got = "none" THEN @ ELSE got,
                                  !.at = IF got = "none" THEN "close" ELSE "send"])
sys_send ==
  /\ call.fn = "echo" /\ call.at = "send"
  /\ Loops("echo", [call EXCEPT !.at = IF call.buf = "blank" THEN "close" ELSE "recv"])
sys_sockclose ==
  /\ call.fn = "echo" /\ call.at = "close"
  /\ Loops("echo", [call EXCEPT !.open = @ \ {call.client_fd}, !.at = "accept"])

EchoNext == \/ sys_socket \/ sys_bind \/ sys_listen \/ EchoFails
            \/ sys_accept \/ sys_recv \/ sys_send \/ sys_sockclose

-----------------------------------------------------------------------------
\* echo_server.c: however the calls fail, the program waits for a client with the
\* listening socket alone open, serves a client on a socket of its own, and returns
\* with none; within a session nothing is read after a blank line.
EchoServes ==
  /\ [](call.fn = "echo" =>
          /\ call.at \in {"bind", "listen", "accept"} => call.open = {call.server_fd}
          /\ call.at \in {"recv", "send", "close"} =>
               call.open = {call.server_fd, call.client_fd} /\ call.server_fd # call.client_fd
          /\ returned # <<>> => call.open = {})
  /\ [][call.fn = "echo" /\ call.buf = "blank" /\ call'.at = "recv" => call.at = "accept"]_vars

=============================================================================
