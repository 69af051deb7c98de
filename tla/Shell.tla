------------------------------- MODULE Shell -------------------------------
(***************************************************************************)
(* The command shell: lexing into the static argument array, parsing,      *)
(* fork, redirection and exec in the child, and the two ways the parent    *)
(* waits.  A child that cannot open a file or execute its program returns  *)
(* from execute() into its own copy of the main loop.  Processes, fork,    *)
(* wait and exit are the operating system's.                               *)
(***************************************************************************)
EXTENDS Integers, Sequences, FiniteSets

CONSTANTS
    Pid,        \* process slots; the first shell is FirstShell
    FirstShell,
    Lines,      \* the command lines users and files may give, as tokens
    NumArgs,    \* _numargs, 10 in the code
    Programs,   \* words that execvp can execute
    Files       \* words that fopen can open

NULL == "NULL"
INIT == "INIT"   \* the parent of orphans, which reaps them at once

ASSUME ShellAssumption ==
    /\ IsFiniteSet(Pid) /\ FirstShell \in Pid /\ INIT \notin Pid
    /\ NumArgs \in Nat \ {0}
    /\ Lines \subseteq Seq(STRING \ {NULL})   \* a token is never a null pointer

VARIABLES
    proc,       \* per slot: state, parent, argument array, command line
    ampersand   \* history: has a shell started a background command?

vars == <<proc, ampersand>>

Special == {"<", ">", "&"}
States == {"free", "reading", "forked", "nohang", "waiting", "program", "zombie"}
NoCommand == [argv |-> <<>>, in |-> NULL, out |-> NULL, background |-> FALSE,
              isCommand |-> TRUE, next |-> "token"]
EmptyArgs == [i \in 1 .. NumArgs |-> NULL]
Free == [st |-> "free", parent |-> INIT, args |-> EmptyArgs, cmd |-> NoCommand,
         child |-> NULL]

Init ==
    /\ proc = [p \in Pid |-> IF p = FirstShell
                             THEN [Free EXCEPT !.st = "reading"] ELSE Free]
    /\ ampersand = FALSE

----------------------------------------------------------------------------
(* get_line.  The first NumArgs - 1 tokens and a NULL are written; what    *)
(* the array holds behind the NULL is left from earlier lines.             *)
Mut_get_line(args, line) ==   \* no NULL behind the last token
    [i \in 1 .. NumArgs |-> IF i <= Len(line) THEN line[i] ELSE args[i]]
Mut_get_line_full(args, line) ==   \* _argcount may reach _numargs
    LET n == IF Len(line) <= NumArgs THEN Len(line) ELSE NumArgs
    IN  [i \in 1 .. (IF n < NumArgs THEN NumArgs ELSE n + 1) |->
            IF i <= n THEN line[i] ELSE IF i = n + 1 THEN NULL ELSE args[i]]
get_line(args, line) ==
    LET n == IF Len(line) < NumArgs THEN Len(line) ELSE NumArgs - 1
    IN  [i \in 1 .. NumArgs |-> IF i <= n THEN line[i]
                                ELSE IF i = n + 1 THEN NULL ELSE args[i]]

(* One turn of parse's loop.  args[++i] takes the next element as the file *)
(* name even if it is the NULL that should end the loop.                   *)
ParseToken(cmd, arg) ==
    CASE cmd.next = "stop" -> cmd
      [] cmd.next = "in"   -> [cmd EXCEPT !.in = arg, !.next = "token"]
      [] cmd.next = "out"  -> [cmd EXCEPT !.out = arg, !.next = "token"]
      [] OTHER ->
           CASE arg = NULL -> [cmd EXCEPT !.next = "stop"]
             [] arg = "<"  -> [cmd EXCEPT !.next = "in", !.isCommand = FALSE]
             [] arg = ">"  -> [cmd EXCEPT !.next = "out", !.isCommand = FALSE]
             [] arg = "&"  -> [cmd EXCEPT !.background = TRUE, !.isCommand = FALSE]
             [] OTHER -> IF cmd.isCommand
                         THEN [cmd EXCEPT !.argv = Append(@, arg)] ELSE cmd

(* What parse has found after the first i elements of the array.           *)
Parsed(args) ==
    LET cmd[i \in 0 .. Len(args)] ==
            IF i = 0 THEN NoCommand ELSE ParseToken(cmd[i - 1], args[i])
    IN  cmd

parse(args) == Parsed(args)[Len(args)]

(* The loop left the array without meeting a NULL.                         *)
Overrun(cmd) == cmd.next # "stop"

----------------------------------------------------------------------------
(* Process p ends.  Its children go to init, which reaps dead ones.        *)
Ended(p) ==
    [q \in Pid |->
        IF q = p THEN IF proc[p].parent = INIT THEN Free
                      ELSE [Free EXCEPT !.st = "zombie", !.parent = proc[p].parent]
        ELSE IF proc[q].parent = p
             THEN IF proc[q].st = "zombie" THEN Free
                  ELSE [proc[q] EXCEPT !.parent = INIT]
        ELSE proc[q]]

Zombies(p) == {q \in Pid : proc[q].st = "zombie" /\ proc[q].parent = p}

(* A turn of main's loop: read a line, parse it, and fork.  The parent and *)
(* the child go on separately; when fork fails the shell reads again.      *)
Fork(p, c, shell, state) ==
    proc' = [proc EXCEPT ![p].st = state, ![p].args = shell.args, ![p].child = c,
                         ![c] = [shell EXCEPT !.st = "forked", !.parent = p]]

Mut_execute_failed(p, shell) ==   \* a failed fork is taken for the parent's return
    IF \A q \in Pid : proc[q].st # "free"
    THEN proc' = [proc EXCEPT ![p].st = "waiting"]
    ELSE \E c \in {q \in Pid : proc[q].st = "free"} :
             Fork(p, c, shell, IF shell.cmd.background THEN "nohang" ELSE "waiting")
execute(p, shell) ==
    IF \A q \in Pid : proc[q].st # "free"
    THEN proc' = [proc EXCEPT ![p].args = shell.args]
    ELSE \E c \in {q \in Pid : proc[q].st = "free"} :
             Fork(p, c, shell, IF shell.cmd.background THEN "nohang" ELSE "waiting")

Command(p, line) ==
    /\ proc[p].st = "reading"
    /\ ampersand' = (ampersand \/ parse(get_line(proc[p].args, line)).background)
    /\ LET args  == get_line(proc[p].args, line)
           shell == [proc[p] EXCEPT !.args = args, !.cmd = parse(args)]
       IN  \/ /\ args[1] = NULL
              /\ proc' = [proc EXCEPT ![p].args = args]
           \/ /\ args[1] = "exit"
              /\ proc' = Ended(p)
           \/ /\ args[1] \notin {NULL, "exit"}
              /\ ~Overrun(parse(args))
              /\ execute(p, shell)
           \/ /\ args[1] \notin {NULL, "exit"}
              /\ Overrun(parse(args))   \* reads past the array: undefined,
              /\ proc' = Ended(p)       \* taken to fault

(* At the end of its input get_line returns NULL, and main dereferences it.*)
EndOfInput(p) == proc[p].st = "reading" /\ proc' = Ended(p)

(* Back in main's loop.  parse resets what the last command left in the    *)
(* globals, all but the argument array.                                    *)
ReadAgain(p) == [Free EXCEPT !.st = "reading", !.parent = proc[p].parent,
                             !.args = proc[p].args]

(* The foreground wait() takes any child that ended.                       *)
Mut_wait(p) ==   \* a wait that is cut short is not repeated
    proc[p].st = "waiting" /\ proc' = [proc EXCEPT ![p] = ReadAgain(p)]
wait(p) ==
    /\ proc[p].st = "waiting"
    /\ \E q \in Zombies(p) :
          proc' = [proc EXCEPT ![p] = ReadAgain(p), ![q] = Free]

(* waitpid(-1, WNOHANG) after starting a background command.               *)
waitpid(p) ==
    /\ proc[p].st = "nohang"
    /\ \/ /\ Zombies(p) = {}
          /\ proc' = [proc EXCEPT ![p] = ReadAgain(p)]
       \/ \E q \in Zombies(p) :
             proc' = [proc EXCEPT ![p] = ReadAgain(p), ![q] = Free]

(* The child's part of execute: redirect, then become the program.  On any *)
(* failure it returns and reads command lines itself.                      *)
Opens(file) == file = NULL \/ file \in Files

Child(p) ==
    /\ proc[p].st = "forked"
    /\ LET cmd == proc[p].cmd
           runs == /\ Opens(cmd.out) /\ Opens(cmd.in)
                   /\ cmd.argv # <<>> /\ Head(cmd.argv) \in Programs
       IN  proc' = [proc EXCEPT ![p] =
                       IF runs THEN [Free EXCEPT !.st = "program", !.parent = proc[p].parent]
                       ELSE ReadAgain(p)]

ProgramExit(p) == proc[p].st = "program" /\ proc' = Ended(p)

Terminated == (\A p \in Pid : proc[p].st = "free") /\ UNCHANGED vars

Next ==
    \/ \E p \in Pid, line \in Lines : Command(p, line)
    \/ \E p \in Pid :
       /\ \/ EndOfInput(p)
          \/ wait(p)
          \/ waitpid(p)
          \/ Child(p)
          \/ ProgramExit(p)
       /\ UNCHANGED ampersand
    \/ Terminated

Spec == Init /\ [][Next]_vars

----------------------------------------------------------------------------
(* Properties.                                                             *)

(* Type invariant of the process table; _args keeps its length.            *)
TypeOK ==
    \A p \in Pid :
        /\ proc[p].st \in States
        /\ proc[p].parent \in Pid \cup {INIT}
        /\ DOMAIN proc[p].args = 1 .. NumArgs
        /\ proc[p].st = "free" => proc[p] = Free
        /\ proc[p].parent # INIT => proc[proc[p].parent].st # "free"

(* A shell blocked in wait() has a child to wait for.                      *)
WaiterHasChild ==
    \A p \in Pid : proc[p].st = "waiting" => \E q \in Pid : proc[q].parent = p

(* As long as no background command is given, one process at a time reads  *)
(* commands, however many children fell back into main's loop.             *)
OneReader ==
    ~ampersand => Cardinality({p \in Pid : proc[p].st = "reading"}) <= 1

(* Shells take turns: one reads, the others each wait for a child.         *)
TakeTurns == WaiterHasChild /\ OneReader

(* As long as no background command is given, a shell goes on after a      *)
(* command only when that command's process has ended, though wait() takes *)
(* any child.                                                              *)
ForegroundWaits ==
    [][~ampersand =>
          \A p \in Pid :
              proc[p].st = "waiting" /\ proc'[p].st = "reading" =>
                  proc[proc[p].child].st = "zombie"]_vars

(* What a line means: the words before the first special token, the files  *)
(* named last, and whether it has an ampersand.                            *)
WellFormed(line) ==
    /\ Len(line) < NumArgs
    /\ \A i \in DOMAIN line : line[i] \in {"<", ">"} =>
          i < Len(line) /\ line[i + 1] \notin Special

Meaning(line) ==
    LET specials == {i \in DOMAIN line : line[i] \in Special}
        first == IF specials = {} THEN Len(line) + 1
                 ELSE CHOOSE i \in specials : \A j \in specials : i <= j
        after(s) == LET at == {i \in DOMAIN line : line[i] = s}
                    IN  IF at = {} THEN NULL
                        ELSE line[1 + CHOOSE i \in at : \A j \in at : j <= i]
    IN  [argv |-> SubSeq(line, 1, first - 1), in |-> after("<"),
         out |-> after(">"), background |-> "&" \in {line[i] : i \in DOMAIN line},
         isCommand |-> specials = {}, next |-> "stop"]

(* A well-formed line means the same to every shell, whatever longer lines *)
(* it left in the argument array before.                                   *)
ParseFaithful ==
    \A p \in Pid : proc[p].st = "reading" =>
        \A line \in Lines : WellFormed(line) =>
            parse(get_line(proc[p].args, line)) = Meaning(line)

=============================================================================
