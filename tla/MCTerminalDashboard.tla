-------------------------- MODULE MCTerminalDashboard --------------------------
EXTENDS TerminalDashboard

\* Busy, and otherwise at the thresholds of the rules, above none of them.
Calm == [load |-> 50, iowait |-> 0, used |-> 70, heat |-> 75, cpu_psi |-> 5,
         memory_psi |-> 5, io_psi |-> 5, busy |-> 5, old |-> FALSE,
         usage |-> <<0, 2, 8>>]

\* The processor is fought for and heats up.
Compute == [Calm EXCEPT !.load = 96, !.heat = 76, !.cpu_psi = 6,
                        !.usage = <<0, 1, 95>>]

\* Memory runs out and the disk is swapped to, for another process.
Thrash == [Calm EXCEPT !.used = 71, !.memory_psi = 6, !.io_psi = 6, !.iowait = 50,
                       !.busy = 100, !.usage = <<0, 70, 6>>]

\* The same on a kernel without pressure files and MemAvailable.
Old(m) == [m EXCEPT !.old = TRUE]

TheMachines == {Compute, Thrash, Old(Compute), Old(Thrash)}
TheKeys == {"q", "3"}
================================================================================
