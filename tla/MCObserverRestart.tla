---------------------------- MODULE MCObserverRestart ----------------------------
(***************************************************************************)
(* ObserverNode with one restart of an observer's process.  The chain is   *)
(* in the store; the round, and with it the vote for a block, is only in   *)
(* memory.                                                                 *)
(*                                                                         *)
(* The schedule is bounded to one story: the observers First take part in  *)
(* the round before the restart and Second in the one after it, no round   *)
(* is given up, and of steps that commute the smaller observer's is first. *)
(***************************************************************************)
EXTENDS ObserverNode

CONSTANTS
  First,       \* bound: the observers that get on with the round at first
  Second,      \* bound: those that get on with the round after the restart
  Connecting   \* bound: the observer that connects a block before the restart

VARIABLE restarted   \* whether the restart has happened

\* NewObserverNode on a chain that is already there: a fresh round and empty
\* queues.
Restart(o) ==
  /\ round' = [round EXCEPT ![o] = NewVoteRound(Height(o) + 1)]
  /\ genQ' = [genQ EXCEPT ![o] = {}]
  /\ blockQ' = [blockQ EXCEPT ![o] = {}]
  /\ UNCHANGED <<chain, msgs, panicked>>

RestartInit == Init /\ restarted = FALSE

RestartNext ==
  \/ Next /\ UNCHANGED restarted
  \/ /\ ~restarted /\ restarted' = TRUE
     /\ Height(Connecting) > 0
     /\ \E o \in First \cap Second : Restart(o)

RestartSpec == RestartInit /\ [][RestartNext]_<<vars, restarted>>

RoundVoters == {m.from : m \in {x \in msgs : x.type = "RoundVote"}}

Active == IF restarted THEN Second ELSE First

Stage(o) == CHOOSE i \in 1..4 :
  round[o].state = <<"RoundVote", "RoundVoteAck", "BlockWait", "BlockVote">>[i]

Story ==
  /\ \A o \in Observers :
       /\ round'[o] # round[o] /\ restarted' = restarted =>
            /\ o \in Active
            /\ \A p \in Active : p < o => Stage(p) > Stage(o)
            /\ round'[o].state = "RoundVote" => chain'[o] # chain[o]
       /\ chain'[o] # chain[o] => o \in IF restarted THEN Second ELSE {Connecting}
  /\ blockQ' = blockQ
  /\ RoundVoters # Observers => RoundVoters' # RoundVoters
  /\ \A o \in RoundVoters', p \in Observers : p < o => p \in RoundVoters'
  /\ \A m \in msgs' \ msgs : m.type = "RoundVoteAck" => m.vote.pub \in First \cap Second

\* A restarted observer hears again only from observers of its own height, which
\* still send and answer votes for it: they alone must be enough for a quorum.
HeardAgain ==
  \A o \in Observers :
    LET peers  == {p \in Observers : Height(p) = Height(o)}
        ackers == {m.from : m \in {x \in msgs : x.type = "RoundVoteAck"}}
    IN  restarted =>
          /\ round[o].state = "RoundVote" /\ round'[o].state = "RoundVoteAck"
             => Cardinality(peers) >= RoundQuorum
          /\ round[o].state = "RoundVoteAck" /\ round'[o].state = "BlockWait"
             => Cardinality(peers \cap ackers) >= Majority
=============================================================================
