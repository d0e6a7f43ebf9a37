---------------------------- MODULE Checkpoints -----------------------------
(***************************************************************************)
(* What the saves of the game promise, without files, prompts or records.  *)
(* A session holds one live state.  A slot holds a state or nothing.       *)
(* Saving copies the live state into one slot, loading copies one slot     *)
(* over the live state, and neither does anything else: no slot changes    *)
(* while the session plays or loads, and the live state does not change    *)
(* while it saves.  An attempt to save may leave its slot with nothing in  *)
(* it, and a slot may be emptied from outside at any time.                 *)
(***************************************************************************)
CONSTANTS
    Slots,
    States,      \* the live states
    NewStates,   \* those a session may begin with
    OpenStates,  \* those the game goes on from
    Nothing      \* no session, or nothing in a slot

VARIABLES live, slots, mode

checkpointVars == <<live, slots, mode>>

CheckpointsInit ==
    /\ live = Nothing
    /\ slots = [s \in Slots |-> Nothing]
    /\ mode = "off"

\* The session goes on with the state g in mode m.
Resume(g, m) == live' = g /\ mode' = m

Begin ==
    /\ mode = "off"
    /\ \E g \in NewStates : live' = g
    /\ mode' = "playing"
    /\ UNCHANGED slots

Play ==
    /\ mode = "playing"
    /\ live' \in States
    /\ mode' = "playing"
    /\ UNCHANGED slots

Ask ==
    /\ mode = "playing"
    /\ mode' \in {"saving", "loading"}
    /\ UNCHANGED <<live, slots>>

Load(s) ==
    /\ mode = "loading"
    /\ slots[s] # Nothing
    /\ Resume(slots[s], "playing")
    /\ UNCHANGED slots

Save(s) ==
    /\ mode = "saving"
    /\ live \in OpenStates
    /\ slots' = [slots EXCEPT ![s] = live]
    /\ Resume(live, "playing") \/ Resume(Nothing, "off")

\* Neither saved nor loaded: back to the game.
Leave ==
    /\ mode \in {"saving", "loading"}
    /\ Resume(live, "playing")
    /\ UNCHANGED slots

Damage(s) ==
    /\ slots' = [slots EXCEPT ![s] = Nothing]
    /\ UNCHANGED <<live, mode>>

Stop ==
    /\ mode # "off"
    /\ Resume(Nothing, "off")
    /\ UNCHANGED slots

CheckpointsNext ==
    \/ Begin
    \/ Play
    \/ Ask
    \/ \E s \in Slots : Load(s) \/ Save(s) \/ Damage(s)
    \/ Leave
    \/ Stop

CheckpointsSpec == CheckpointsInit /\ [][CheckpointsNext]_checkpointVars
=============================================================================
