----------------------------- MODULE FireControl -----------------------------
(***************************************************************************)
(* Tank_Trouble_TL.sv lines 232-365: how the keyboard slots become bullet  *)
(* launches.  The software shows up to six pressed keys in six one-byte    *)
(* registers (slots); per tank and slot a flip-flop says that the slot     *)
(* shows the tank's fire key, an edge detector finds its rising edges, and *)
(* any edge raises the trigger of the tank's first bullet not in flight.   *)
(* Nothing here is touched by any reset.                                   *)
(***************************************************************************)
EXTENDS Naturals

CONSTANTS Tanks,        \* the two tanks
          PerTank,      \* bullets of a tank: 3
          Slots,        \* keyboard slots: 6
          OtherKeys     \* everything a slot can show but a fire key

ASSUME PerTankAssumption == PerTank \in Nat \ {0}
ASSUME OtherKeysAssumption == OtherKeys \cap Tanks = {}

VARIABLES keycode,      \* keycode[s]: t when slot s shows tank t's fire key
          tshot,        \* tshot[t][s]: t1shot and t2shot
          det,          \* det[t][s]: flip-flop d of the edge detectors
          trigger       \* trigger[b]: the trigger inputs of the bullets

fireVars == <<tshot, det, trigger>>

Keys == Tanks \union OtherKeys
\* Tank t's bullets are <<t, 1>> .. <<t, PerTank>>.
TankBullets == Tanks \X (1 .. PerTank)

FireTypeOK == /\ keycode \in [Slots -> Keys]
              /\ tshot \in [Tanks -> [Slots -> BOOLEAN]]
              /\ det \in [Tanks -> [Slots -> BOOLEAN]]
              /\ trigger \in [TankBullets -> BOOLEAN]

FireInit == /\ tshot = [t \in Tanks |-> [s \in Slots |-> FALSE]]
            /\ det = [t \in Tanks |-> [s \in Slots |-> FALSE]]
            /\ trigger = [b \in TankBullets |-> FALSE]

\* Fault: the edge detectors' flip-flops are left out.
FaultPost(t) == \E s \in Slots : tshot[t][s]
\* post # 0: some slot's fire-key flip-flop has just risen.
Post(t) == \E s \in Slots : tshot[t][s] /\ ~det[t][s]

\* The if/else-if chain picks the lowest-numbered bullet not in flight.
FirstFree(t, i, shot) == /\ ~shot[<<t, i>>]
                         /\ \A j \in 1 .. i - 1 : shot[<<t, j>>]

\* Fault: the triggers are never lowered.
FaultRaised(t, i, shot) == trigger[<<t, i>>] \/ (Post(t) /\ FirstFree(t, i, shot))
\* Fault: the chain has no branch for the later bullets.
FaultRaisedFirst(t, i, shot) == Post(t) /\ (trigger[<<t, i>>] \/ (i = 1 /\ FirstFree(t, i, shot)))
\* While edges keep coming a raised trigger stays up and one more may rise; the
\* first frame without an edge lowers all of the tank's triggers.
Raised(t, i, shot) == Post(t) /\ (trigger[<<t, i>>] \/ FirstFree(t, i, shot))

\* One rising edge of VGA_VS; shot[b] says that bullet b is in flight.
FireFrame(shot) ==
  /\ tshot' = [t \in Tanks |-> [s \in Slots |-> keycode[s] = t]]
  /\ det' = tshot
  /\ trigger' = [b \in TankBullets |-> Raised(b[1], b[2], shot)]

\* The software shows another key in one slot (setKeycode of main.c).
ShowKey(s, k) == keycode' = [keycode EXCEPT ![s] = k]
=============================================================================
