------------------------------- MODULE Daemon -------------------------------
(***************************************************************************)
(* The two daemons of lesson28.  Every two seconds a handler runs, which   *)
(* appends the time to time.txt (daemon.c) or prints it (demo.c).          *)
(*                                                                         *)
(* The process that reaches the main loop is the child of the fork, or the *)
(* process itself when fork fails (-1 is not tested).  The closing of the  *)
(* terminal may end a process that still belongs to its session.  umask,   *)
(* chdir and the text that is written are left out.                        *)
(***************************************************************************)
EXTENDS Naturals

VARIABLES program,    \* "daemon" or "demo"
          pc,         \* where main is
          leader,     \* does the process lead its process group?
          forked,     \* did the fork succeed?
          session,    \* whose session it is in
          redirected, \* how many of the descriptors 0, 1, 2 are /dev/null
          registered, \* is work the disposition of SIGALRM?
          timer,      \* is the timer running (it_value)?
          interval,   \* is it set again when it expires (it_interval)?
          pending,    \* is a SIGALRM pending?
          handler,    \* where work is, "idle" when it does not run
          terminal    \* is the terminal still open?

timerVars == <<timer, interval>>
vars == <<program, pc, leader, forked, session, redirected, registered, timerVars,
          pending, handler, terminal>>

\* A program started from a shell leads its group, unless it comes later in a
\* pipeline.
Init == /\ program \in {"daemon", "demo"}
        /\ pc = "fork"
        /\ leader \in BOOLEAN
        /\ forked = FALSE
        /\ session = "terminal"
        /\ redirected = 0
        /\ registered = FALSE /\ pending = FALSE
        /\ timer = FALSE /\ interval = FALSE
        /\ handler = "idle"
        /\ terminal = "open"

\* main runs only while the handler does not.
Goto(from, to) == pc = from /\ pc' = to /\ handler = "idle"

ForkParentStays ==
    /\ Goto("fork", "setsid")
    /\ \E ok \in BOOLEAN : forked' = ok
    /\ UNCHANGED <<program, leader, session, redirected, registered, timerVars, pending,
                   handler, terminal>>

\* pid_t pid = fork(); if (pid > 0) exit(0);
Fork == /\ Goto("fork", "setsid")
        /\ \E ok \in BOOLEAN : forked' = ok /\ leader' = (leader /\ ~ ok)
        /\ UNCHANGED <<program, session, redirected, registered, timerVars, pending,
                       handler, terminal>>

\* setsid(), which fails for the leader of a group
Setsid == /\ Goto("setsid", "dup2")
          /\ session' = IF leader THEN session ELSE "own"
          /\ leader' = TRUE
          /\ UNCHANGED <<program, forked, redirected, registered, timerVars, pending,
                         handler, terminal>>

Dup2Again == /\ pc = "dup2" /\ handler = "idle"
             /\ redirected' = redirected + 1
             /\ pc' = IF redirected = 3 THEN "sigaction" ELSE "dup2"
             /\ UNCHANGED <<program, leader, forked, session, registered, timerVars, pending,
                            handler, terminal>>

Dup2Twice == /\ pc = "dup2" /\ handler = "idle"
             /\ redirected' = redirected + 1
             /\ pc' = IF redirected = 1 THEN "sigaction" ELSE "dup2"
             /\ UNCHANGED <<program, leader, forked, session, registered, timerVars, pending,
                            handler, terminal>>

\* fd = open("/dev/null", O_RDWR) and dup2(fd, 0), dup2(fd, 1), dup2(fd, 2)
Dup2 == /\ pc = "dup2" /\ handler = "idle"
        /\ redirected' = redirected + 1
        /\ pc' = IF redirected = 2 THEN "sigaction" ELSE "dup2"
        /\ UNCHANGED <<program, leader, forked, session, registered, timerVars, pending,
                       handler, terminal>>

\* sigaction(SIGALRM, &act, NULL)
Sigaction == /\ Goto("sigaction", "setitimer")
             /\ registered' = TRUE
             /\ UNCHANGED <<program, leader, forked, session, redirected, timerVars, pending,
                            handler, terminal>>

SetitimerOnce == /\ Goto("setitimer", "loop")
                 /\ timer' = TRUE
                 /\ UNCHANGED <<program, leader, forked, session, redirected, registered,
                                interval, pending, handler, terminal>>

\* setitimer(ITIMER_REAL, &val, NULL), with it_value and it_interval of 2 s
Setitimer == /\ Goto("setitimer", "loop")
             /\ timer' = TRUE /\ interval' = TRUE
             /\ UNCHANGED <<program, leader, forked, session, redirected, registered,
                            pending, handler, terminal>>

\* In its loop main only sleeps.
main == Fork \/ Setsid \/ Dup2 \/ Sigaction \/ Setitimer

-----------------------------------------------------------------------------
(* The timer, the terminal and the handler *)

\* Two seconds have passed; without an interval the timer is then off.
Expire == /\ timer /\ pc # "killed"
          /\ pending' = TRUE
          /\ timer' = interval
          /\ UNCHANGED <<program, pc, leader, forked, session, redirected, registered,
                         interval, handler, terminal>>

\* SIGALRM starts the handler, which runs with SIGALRM blocked; without a
\* handler it would end the process.
Deliver == /\ pending /\ handler = "idle" /\ pc # "killed"
           /\ pending' = FALSE
           /\ handler' = IF ~ registered THEN "idle"
                         ELSE IF program = "daemon" THEN "open" ELSE "print"
           /\ pc' = IF registered THEN pc ELSE "killed"
           /\ UNCHANGED <<program, leader, forked, session, redirected, registered, timerVars,
                          terminal>>

\* work of daemon.c: open, write and close of time.txt
work == /\ handler \in {"open", "write", "close"} /\ pc # "killed"
        /\ handler' = CASE handler = "open" -> "write"
                        [] handler = "write" -> "close"
                        [] OTHER -> "idle"
        /\ UNCHANGED <<program, pc, leader, forked, session, redirected, registered,
                       timerVars, pending, terminal>>

\* work of demo.c: printf only
demo_work == /\ handler = "print" /\ pc # "killed"
             /\ handler' = "idle"
             /\ UNCHANGED <<program, pc, leader, forked, session, redirected, registered,
                            timerVars, pending, terminal>>

\* The terminal is closed, at any moment.
Hangup == /\ terminal = "open" /\ terminal' = "closed"
          /\ \/ UNCHANGED pc
             \/ session = "terminal" /\ pc' = "killed"
          /\ UNCHANGED <<program, leader, forked, session, redirected, registered, timerVars,
                         pending, handler>>

Next == main \/ Expire \/ Deliver \/ work \/ demo_work \/ Hangup

Spec == Init /\ [][Next]_vars

\* The process is scheduled and time passes; nobody has to close the terminal.
FairSpec == /\ Spec
            /\ WF_vars(main) /\ WF_vars(work \/ demo_work)
            /\ WF_vars(Expire) /\ WF_vars(Deliver)

-----------------------------------------------------------------------------
(* Properties *)

\* Every variable has its type.
TypeOK == /\ program \in {"daemon", "demo"}
          /\ pc \in {"fork", "setsid", "dup2", "sigaction", "setitimer", "loop", "killed"}
          /\ leader \in BOOLEAN /\ forked \in BOOLEAN
          /\ session \in {"terminal", "own"}
          /\ redirected \in 0..3
          /\ registered \in BOOLEAN /\ pending \in BOOLEAN
          /\ timer \in BOOLEAN /\ interval \in BOOLEAN
          /\ handler \in {"idle", "open", "write", "close", "print"}
          /\ terminal \in {"open", "closed"}

\* The handler never runs with the terminal still open as one of the standard
\* descriptors, so it never prints to it.
Quiet == handler # "idle" => redirected = 3

\* Nothing ends a daemon whose fork succeeded once it has its own session:
\* neither the closing of the terminal nor a SIGALRM that comes too early.
Survives == [][forked /\ pc \notin {"fork", "setsid"} => pc' # "killed"]_vars

\* "Every 2 s, write the time to a disk file" (daemon.c, line 2): once it has
\* its own session the daemon writes to time.txt again and again, whatever
\* happens to the terminal and however expiries merge during the handler.
TimeWritten == (program = "daemon" /\ session = "own") ~> (handler = "write")

=============================================================================
