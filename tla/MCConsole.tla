----------------------------- MODULE MCConsole ------------------------------
(***************************************************************************)
(* Console for TLC.                                                        *)
(***************************************************************************)
EXTENDS Console, TLC

MCSlots == 1..2

\* The writer over the stages, with two memories or with faults; the
\* autopilot; live runs of two embeddings, and of one with faults; the agent
\* and the stages that only read; the other panels.
MCSession(flows, memories, faulty) ==
    [flows |-> flows, memories |-> memories, faults |-> faulty]
MCSessions == {MCSession({"erase", "writer"}, 2, 0),
               MCSession({"memory", "erase", "writer"}, 1, 1),
               MCSession({"memory", "writer"}, 2, 1),
               MCSession({"runAll", "envelope", "writer"}, 2, 0),
               MCSession({"leak", "live", "writer"}, 1, 0),
               MCSession({"leak", "live"}, 0, 1),
               MCSession({"memory", "erase", "agent", "audit"}, 1, 1),
               MCSession({"leak", "titan", "timeTravel", "durability"}, 0, 1)}
=============================================================================
