----------------------------- MODULE MCServerLife -----------------------------
(***************************************************************************)
(* Three kinds of life, each with the bounds of one part: saves of the devices   *)
(* with the voice off; saves of the voice section with one set of devices and no  *)
(* network for the connection; the connection with one plan.                     *)
(***************************************************************************)
EXTENDS ServerLife

AToken == CHOOSE t \in Tokens : TRUE
AName == CHOOSE n \in Names : TRUE
AnId == CHOOSE i \in Ids : TRUE

\* Tokens and names are alike.  An extra device without a prefix of its own, or none.
MCInstalled ==
    {c \in Config : Accepts(c) /\ c.base = Default /\ c.token = AToken
                    /\ \A d \in Extras : c.dev[d] = None \/ c.dev[d].prefix = None}

Alone == disk = [Blank EXCEPT !.token = AToken] /\ saves = 0
Still == active = FALSE /\ shown = FALSE /\ net = FALSE /\ left = 0

DevicesLife ==
    /\ saves = MaxSaves /\ faults = MaxFaults
    /\ ~section.enabled /\ Entities(section.plan) = {} /\ edits = 0
    /\ Still

VoiceLife ==
    /\ Alone /\ faults = MaxFaults
    /\ edits = MaxEdits /\ \A i \in Ids : section.plan[i] \in {AName, Unnamed}
    /\ Still

LinkLife ==
    /\ Alone /\ left + 2 * faults = Budget
    /\ section.enabled /\ ~shown /\ section.plan[AnId] = AName /\ Cardinality(Entities(section.plan)) = 1 /\ edits = 0

MCInit == LifeInit /\ (DevicesLife \/ VoiceLife \/ LinkLife)

MCSpec == MCInit /\ [][LifeNext]_lifeVars /\ LifeFairness
=============================================================================
