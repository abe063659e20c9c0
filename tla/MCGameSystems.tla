---------------------------- MODULE MCGameSystems ----------------------------
(* An expedition in stages, started by the player; an errand that the       *)
(* firing of one automation sends off; a brew that the other starts, which  *)
(* waits for the end of missions; and a press that turns an abundance into  *)
(* less of it. An entity that starts without instances makes the ids        *)
(* interchangeable.                                                         *)
EXTENDS GameSystems

MCTransforms ==
    <<[id |-> "expedition", mode |-> "mission", trigger |-> MANUAL, bound |-> 0, cost |-> 1,
       cooldown |-> 0, duration |-> 0, initialStage |-> "scout"],
      [id |-> "errand", mode |-> "mission", trigger |-> "collector", bound |-> 0, cost |-> 1,
       cooldown |-> 1, duration |-> 1, initialStage |-> NoStage],
      [id |-> "brew", mode |-> "batch", trigger |-> "herald", bound |-> 0, cost |-> 1,
       cooldown |-> 0, duration |-> 0, initialStage |-> NoStage],
      [id |-> "press", mode |-> "instant", trigger |-> CONDITION, bound |-> 2, cost |-> 2,
       cooldown |-> 0, duration |-> 0, initialStage |-> NoStage]>>

MCStageDefinitions ==
    [scout |-> [duration |-> 0, checkpoint |-> TRUE, timeout |-> 1, nextStage |-> NoStage,
                options |-> <<[needs |-> 2, nextStage |-> NoStage],
                              [needs |-> 1, nextStage |-> "raid"],
                              [needs |-> 1, nextStage |-> "leave"]>>],
     raid |-> [duration |-> 1, checkpoint |-> TRUE, timeout |-> 0, nextStage |-> "leave",
               options |-> <<>>],
     leave |-> [duration |-> 0, checkpoint |-> FALSE, timeout |-> 0, nextStage |-> NoStage,
                options |-> <<>>]]

MCAutomations ==
    <<[id |-> "collector", trigger |-> "resourceThreshold", comparator |-> "gte", bound |-> 2,
       cost |-> 1, cooldown |-> 1],
      [id |-> "herald", trigger |-> "event", comparator |-> "gte", bound |-> 0,
       cost |-> 1, cooldown |-> 0]>>

MCSymmetry == Permutations(Instances)
=============================================================================
