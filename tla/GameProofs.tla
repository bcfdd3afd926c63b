----------------------------- MODULE GameProofs -----------------------------
(***************************************************************************)
(* Proofs about Game for any tanks, keyboard slots, bullets and lifetime:  *)
(* the arena is clear outside rounds, every point needs a shot of its own  *)
(* round, every shot was asked for at its own tank's fire key, and the     *)
(* whole implements Duel.                                                  *)
(***************************************************************************)
EXTENDS Game, TLAPS

\* Why a hit proves a shot of this round: hits need flight, flight a launch
\* since the round began.
HitsFly == redwin \/ greenwin => \E b \in Bullets : tempshot[b]
FlightFired == \A b \in Bullets : tempshot[b] => fired
\* Why a trigger proves a key: the flip-flops behind it are two frames old.
KeyHeard == \A t \in Tanks, s \in Slots : tshot[t][s] => heard[t] = 0

\* Why a shot is answered: the bullet that was picked is the one triggered.
PickTriggered == \A t \in Tanks : picked[t] # 0 => trigger[<<t, picked[t]>>]

IInv == TypeOK /\ ArenaClear /\ HitsFly /\ FlightFired /\ KeyHeard /\ TriggerHasCause /\ PickTriggered

USE LimitAssumption, PerTankAssumption, FirstSlotAssumption, NoKeyAssumption,
    OtherKeysAssumption, BulletsAssumption

(* The state register never leaves the enum.                               *)
LEMMA StateClosed ==
  ASSUME State \in SC!AllStates, SC!ScreenFrame PROVE State' \in SC!AllStates
<1> USE DEF SC!AllStates, SC!GameStates, SC!ResetStates, SC!WinStates, SC!ScreenFrame, SC!Next_state
<1>1. CASE State = "start"
  BY <1>1
<1>2. CASE State \in SC!GameStates
  <2>1. State' \in {SC!OnRedWin(State), SC!OnGreenWin(State), State}
    BY <1>2
  <2>2. SC!OnRedWin(State) \in SC!AllStates /\ SC!OnGreenWin(State) \in SC!AllStates
    BY <1>2 DEF SC!OnRedWin, SC!OnGreenWin
  <2> QED BY <2>1, <2>2
<1>3. CASE State \in SC!ResetStates
  <2>1. State' = SC!AfterReset(State)
    BY <1>3
  <2>2. SC!AfterReset(State) \in SC!AllStates
    BY <1>3 DEF SC!AfterReset
  <2> QED BY <2>1, <2>2
<1>4. CASE State \in SC!WinStates
  BY <1>4
<1> QED BY <1>1, <1>2, <1>3, <1>4

LEMMA BulletFrameTypes == ASSUME BulletTypeOK, BulletFrame(trigger) PROVE BulletTypeOK'
BY DEF BulletTypeOK, BulletFrame, Launches, Flies, Recalled, TimerRuns

LEMMA BulletTimerTypes == ASSUME BulletTypeOK, BulletTimer PROVE BulletTypeOK'
BY DEF BulletTypeOK, BulletTimer, Count, Expires

LEMMA BulletParkedTypes == ASSUME BulletParked PROVE BulletTypeOK'
<1>1. counter' \in [Bullets -> 0 .. Limit]
  BY DEF BulletParked, Zero
<1> QED BY <1>1, Zenon DEF BulletTypeOK, BulletParked, None

LEMMA FireFrameTypes == ASSUME FireTypeOK, FireFrame(tempshot), UNCHANGED keycode PROVE FireTypeOK'
BY DEF FireTypeOK, FireFrame, Raised, Post, FirstFree

LEMMA InitIInv == Init => IInv
<1> SUFFICES ASSUME Init PROVE IInv
  OBVIOUS
<1>1. FireTypeOK /\ BulletTypeOK
  <2>1. counter \in [Bullets -> 0 .. Limit]
    BY DEF Init, BulletInit, Zero
  <2>2. keycode \in [Slots -> Keys]
    BY DEF Init, Keys
  <2>3. BulletTypeOK
    BY <2>1, Zenon DEF Init, BulletInit, BulletTypeOK, None
  <2>4. FireTypeOK
    BY <2>2, Zenon DEF Init, FireInit, FireTypeOK
  <2> QED BY <2>3, <2>4
<1>2. TypeOK
  <2>1. heard \in [Tanks -> 0 .. LongAgo] /\ picked \in [Tanks -> 0 .. PerTank]
    BY DEF Init, LongAgo
  <2>2. State \in SC!AllStates /\ spaceD \in BOOLEAN
    BY DEF Init, SC!ScreenInit, SC!AllStates
  <2> QED BY <1>1, <2>1, <2>2 DEF TypeOK, Init
<1>3. ArenaClear /\ HitsFly
  BY DEF Init, BulletInit, ArenaClear, HitsFly
<1>4. FlightFired
  BY DEF Init, BulletInit, None, FlightFired
<1>5. KeyHeard /\ TriggerHasCause
  BY DEF Init, FireInit, KeyHeard, TriggerHasCause
<1>6. PickTriggered
  BY DEF Init, PickTriggered
<1> QED BY <1>2, <1>3, <1>4, <1>5, <1>6 DEF IInv

LEMMA FrameIInv == ASSUME IInv, Frame PROVE IInv'
<1>1. FireTypeOK'
  BY FireFrameTypes DEF IInv, TypeOK, Frame
<1>2. BulletTypeOK'
  BY BulletFrameTypes, BulletParkedTypes DEF IInv, TypeOK, Frame, BulletEdge
<1>3. State' \in SC!AllStates /\ spaceD' \in BOOLEAN
  BY StateClosed DEF IInv, TypeOK, Frame, SC!ScreenFrame
<1>4. heard' \in [Tanks -> 0 .. LongAgo]
  <2>1. heard' = [t \in Tanks |-> IF \E s \in Slots : keycode[s] = t THEN 0
                                  ELSE IF heard[t] < LongAgo THEN heard[t] + 1 ELSE LongAgo]
    BY DEF Frame, Observe
  <2> QED BY <2>1 DEF IInv, TypeOK, LongAgo
<1>5. picked' \in [Tanks -> 0 .. PerTank]
  <2>1. picked' = [t \in Tanks |->
                  IF Post(t) /\ \E i \in 1 .. PerTank : FirstFree(t, i, tempshot)
                    THEN CHOOSE i \in 1 .. PerTank : FirstFree(t, i, tempshot)
                    ELSE 0]
    BY DEF Frame, Observe
  <2> SUFFICES ASSUME NEW t \in Tanks PROVE picked'[t] \in 0 .. PerTank
    BY <2>1
  <2>2. CASE Post(t) /\ \E i \in 1 .. PerTank : FirstFree(t, i, tempshot)
    <3>1. (CHOOSE i \in 1 .. PerTank : FirstFree(t, i, tempshot)) \in 1 .. PerTank
      BY <2>2
    <3> QED BY <2>1, <2>2, <3>1
  <2>3. CASE ~(Post(t) /\ \E i \in 1 .. PerTank : FirstFree(t, i, tempshot))
    BY <2>1, <2>3
  <2> QED BY <2>2, <2>3
<1>6. TypeOK'
  BY <1>1, <1>2, <1>3, <1>4, <1>5 DEF TypeOK, Frame, Hits, Observe
<1>7. HitsFly'
  BY DEF HitsFly, Frame, Hits
<1>8. ArenaClear'
  <2> SUFFICES ASSUME screen_reset' PROVE ArenaClear'
    BY DEF ArenaClear
  <2>1. BulletParked
    BY DEF Frame, BulletEdge
  <2>2. ~(\E b \in Bullets : tempshot'[b])
    BY <2>1 DEF BulletParked, None
  <2> QED BY <2>1, <2>2, <1>7 DEF ArenaClear, BulletParked, HitsFly, None, Zero
<1>9. FlightFired'
  <2> SUFFICES ASSUME NEW b \in Bullets, tempshot'[b] PROVE fired'
    BY DEF FlightFired
  <2>1. ~screen_reset /\ ~screen_reset'
    BY DEF Frame, BulletEdge, BulletParked, None
  <2>2. fired \/ ~tempshot[b]
    BY DEF IInv, FlightFired
  <2> QED BY <2>1, <2>2 DEF Frame, Observe
<1>10. KeyHeard'
  BY DEF KeyHeard, Frame, FireFrame, Observe
<1>11. TriggerHasCause'
  <2> SUFFICES ASSUME NEW b \in TankBullets, trigger'[b] PROVE heard'[b[1]] <= 1
    BY DEF TriggerHasCause
  <2>1. b[1] \in Tanks
    BY DEF TankBullets
  <2>2. Post(b[1])
    BY DEF Frame, FireFrame, Raised
  <2>3. heard[b[1]] = 0
    BY <2>1, <2>2 DEF Post, IInv, KeyHeard
  <2> QED BY <2>1, <2>3 DEF Frame, Observe, LongAgo
<1>12. PickTriggered'
  <2> SUFFICES ASSUME NEW t \in Tanks, picked'[t] # 0 PROVE trigger'[<<t, picked'[t]>>]
    BY DEF PickTriggered
  <2> DEFINE i == CHOOSE i \in 1 .. PerTank : FirstFree(t, i, tempshot)
  <2>1. Post(t) /\ (\E j \in 1 .. PerTank : FirstFree(t, j, tempshot)) /\ picked'[t] = i
    BY DEF Frame, Observe
  <2>2. i \in 1 .. PerTank /\ FirstFree(t, i, tempshot)
    BY <2>1
  <2> HIDE DEF i
  <2>3. <<t, i>> \in TankBullets
    BY <2>2 DEF TankBullets
  <2>4. trigger'[<<t, i>>] = Raised(t, i, tempshot)
    BY <2>3, Zenon DEF Frame, FireFrame
  <2> QED BY <2>1, <2>2, <2>4 DEF Raised
<1> QED BY <1>6, <1>7, <1>8, <1>9, <1>10, <1>11, <1>12 DEF IInv

LEMMA TimerIInv == ASSUME IInv, Timer PROVE IInv'
<1>1. BulletTypeOK'
  BY BulletTimerTypes, BulletParkedTypes DEF IInv, TypeOK, Timer
<1>2. TypeOK'
  BY <1>1 DEF IInv, TypeOK, Timer, fireVars, FireTypeOK
<1>3. tempshot' = tempshot
  BY DEF Timer, BulletTimer, BulletParked, IInv, ArenaClear
<1>4. screen_reset' <=> screen_reset
  BY DEF Timer, screen_reset, SC!screenreset
<1>5. ArenaClear'
  BY <1>4 DEF Timer, BulletParked, IInv, ArenaClear, None, Zero
<1> QED BY <1>2, <1>3, <1>5 DEF IInv, Timer, fireVars, HitsFly, FlightFired, KeyHeard, TriggerHasCause, PickTriggered

LEMMA Key0IInv == ASSUME IInv, Key0 PROVE IInv'
<1>1. BulletTypeOK'
  BY BulletParkedTypes DEF Key0, Key0Parks
<1>2. TypeOK'
  BY <1>1 DEF IInv, TypeOK, Key0, fireVars, FireTypeOK, SC!ScreenReset, SC!AllStates
<1>3. ArenaClear' /\ HitsFly'
  BY DEF Key0, Key0Parks, BulletParked, ArenaClear, HitsFly, None, Zero
<1>4. FlightFired'
  BY DEF Key0, Key0Parks, BulletParked, FlightFired, None
<1> QED BY <1>2, <1>3, <1>4 DEF IInv, Key0, fireVars, KeyHeard, TriggerHasCause, PickTriggered

LEMMA SoftwareIInv == ASSUME IInv, Software PROVE IInv'
<1>1. FireTypeOK'
  BY DEF Software, ShowKey, fireVars, IInv, TypeOK, FireTypeOK
<1>2. TypeOK'
  BY <1>1 DEF Software, IInv, TypeOK, bulletVars, BulletTypeOK
<1> QED BY <1>2 DEF Software, fireVars, bulletVars, IInv, ArenaClear, screen_reset, SC!screenreset,
                     None, Zero, HitsFly, FlightFired, KeyHeard, TriggerHasCause, PickTriggered

LEMMA NextIInv == IInv /\ [Next]_vars => IInv'
<1> SUFFICES ASSUME IInv, [Next]_vars PROVE IInv'
  OBVIOUS
<1>1. CASE UNCHANGED vars
  <2>1. TypeOK'
    BY <1>1 DEF vars, fireVars, bulletVars, IInv, TypeOK, FireTypeOK, BulletTypeOK
  <2> QED BY <1>1, <2>1 DEF vars, fireVars, bulletVars, IInv, ArenaClear, screen_reset,
              SC!screenreset, None, Zero, HitsFly, FlightFired, KeyHeard, TriggerHasCause, PickTriggered
<1> QED BY <1>1, FrameIInv, TimerIInv, Key0IInv, SoftwareIInv DEF Next

LEMMA IInvHolds == Spec => []IInv
BY InitIInv, NextIInv, PTL DEF Spec

(* Every register keeps its type, for any number of slots and bullets.     *)
THEOREM GameTypeCorrect == Spec => []TypeOK
BY IInvHolds, PTL DEF IInv

(* Outside a round the arena is clear in both clock domains.               *)
THEOREM ArenaClearHolds == Spec => []ArenaClear
BY IInvHolds, PTL DEF IInv

(* A raised trigger was asked for at its own tank's key.                   *)
THEOREM TriggerHasCauseHolds == Spec => []TriggerHasCause
BY IInvHolds, PTL DEF IInv

\* A point needs a shot of its own round: the death that decided a round is
\* gone before the next one starts, so it never counts twice.
Decides == State \in SC!GameStates /\ State' # State /\ (redwin \/ greenwin)
PointNeedsAShot == [][Decides => fired]_vars

(* A round is decided only when something was launched in it.              *)
THEOREM PointNeedsAShotHolds == Spec => PointNeedsAShot
<1>1. IInv /\ [Next]_vars => [Decides => fired]_vars
  BY DEF IInv, Decides, HitsFly, FlightFired
<1> QED BY <1>1, IInvHolds, PTL DEF Spec, PointNeedsAShot

(* No bullet is launched that its tank did not ask for two frames before.  *)
THEOREM NoShotUnaskedHolds == Spec => NoShotUnasked
<1> DEFINE Asked == \A b \in TankBullets : ~tempshot[b] /\ tempshot'[b] => heard'[b[1]] <= 2
<1>1. IInv /\ [Next]_vars => [Asked]_vars
  <2> SUFFICES ASSUME IInv, [Next]_vars, NEW b \in TankBullets, ~tempshot[b], tempshot'[b]
               PROVE  heard'[b[1]] <= 2
    OBVIOUS
  <2>1. CASE Frame
    <3>1. BulletFrame(trigger)
      BY <2>1 DEF Frame, BulletEdge, BulletParked, None
    <3>2. trigger[b] /\ b[1] \in Tanks
      BY <3>1 DEF BulletFrame, Launches, Flies, TankBullets
    <3>3. heard[b[1]] <= 1 /\ heard[b[1]] \in 0 .. LongAgo
      BY <3>2 DEF IInv, TriggerHasCause, TypeOK
    <3>4. heard'[b[1]] \in {0, heard[b[1]] + 1, LongAgo} /\ (heard'[b[1]] = LongAgo => heard[b[1]] >= 2)
      BY <2>1, <3>2, <3>3 DEF Frame, Observe, LongAgo
    <3> QED BY <3>3, <3>4 DEF LongAgo
  <2>2. CASE Timer
    BY <2>2 DEF Timer, BulletTimer, BulletParked, None
  <2>3. CASE Key0
    BY <2>3 DEF Key0, Key0Parks, BulletParked, None
  <2>4. CASE Software
    BY <2>4 DEF Software, bulletVars
  <2>5. CASE UNCHANGED vars
    BY <2>5 DEF vars, bulletVars
  <2> QED BY <2>1, <2>2, <2>3, <2>4, <2>5 DEF Next
<1> QED BY <1>1, IInvHolds, PTL DEF Spec, NoShotUnasked

(* The bullet that a frame picks for a fire key flies one frame later, unless
   the round is over or its last recall still holds it.                    *)
THEOREM ShotAnsweredHolds == Spec => ShotAnswered
<1> DEFINE Answered == \A t \in Tanks :
             Frame /\ picked[t] # 0 /\ ~screen_reset /\ ~screen_reset'
               => tempshot'[<<t, picked[t]>>] \/ timer_done[<<t, picked[t]>>]
<1>1. IInv /\ [Next]_vars => [Answered]_vars
  <2> SUFFICES ASSUME IInv, NEW t \in Tanks, Frame, picked[t] # 0, ~screen_reset, ~screen_reset'
               PROVE  tempshot'[<<t, picked[t]>>] \/ timer_done[<<t, picked[t]>>]
    OBVIOUS
  <2>1. <<t, picked[t]>> \in Bullets /\ trigger[<<t, picked[t]>>]
    <3>1. picked[t] \in 1 .. PerTank
      BY DEF IInv, TypeOK
    <3> QED BY <3>1 DEF TankBullets, IInv, PickTriggered
  <2>2. BulletFrame(trigger)
    BY Zenon DEF Frame, BulletEdge
  <2>3. tempshot'[<<t, picked[t]>>] = (\/ Launches(<<t, picked[t]>>, trigger)
                                      \/ Flies(<<t, picked[t]>>, trigger))
    BY <2>1, <2>2, Zenon DEF BulletFrame
  <2> QED BY <2>1, <2>3, Zenon DEF Launches, Flies, Recalled
<1> QED BY <1>1, IInvHolds, PTL DEF Spec, ShotAnswered
-----------------------------------------------------------------------------
(* The composed game implements Duel: the tables count, as in ScreenProofs, *)
(* and what decides a round is a shot of that round.                       *)

\* The points are those of the round about to begin.
redpoints == SC!redscore(SC!RoundOf)
greenpoints == SC!greenscore(SC!RoundOf)

\* No shot is remembered outside a round.
FiredInRound == screen_reset => ~fired

LEMMA KindsApart ==
  /\ "start" \notin SC!GameStates \union SC!ResetStates \union SC!WinStates
  /\ \A s \in SC!GameStates : s \notin SC!ResetStates \union SC!WinStates
  /\ \A s \in SC!ResetStates : s \notin SC!GameStates \union SC!WinStates
  /\ \A s \in SC!WinStates : s \notin SC!GameStates \union SC!ResetStates
BY DEF SC!GameStates, SC!ResetStates, SC!WinStates

\* What the outputs show outside a match, in a round and between two rounds.
LEMMA Shown ==
  /\ State = "start" => SC!Phase = "title" /\ redpoints = 0 /\ greenpoints = 0
  /\ State \in SC!GameStates => /\ SC!Phase = "play" /\ redpoints = SC!redscore(State)
                                /\ greenpoints = SC!greenscore(State)
  /\ State \in SC!ResetStates => /\ SC!Phase = "play"
                                 /\ redpoints = SC!redscore(SC!AfterReset(State))
                                 /\ greenpoints = SC!greenscore(SC!AfterReset(State))
  /\ State = "redwins" => SC!Phase = "redwon" /\ redpoints = 0 /\ greenpoints = 0
  /\ State = "greenwins" => SC!Phase = "greenwon" /\ redpoints = 0 /\ greenpoints = 0
<1> USE DEF SC!Phase, SC!currstate, SC!RoundOf, redpoints, greenpoints, SC!GameStates, SC!ResetStates
<1>1. State = "start" => SC!Phase = "title" /\ redpoints = 0 /\ greenpoints = 0
  BY DEF SC!redscore, SC!greenscore
<1>2. State \in SC!GameStates => /\ SC!Phase = "play" /\ redpoints = SC!redscore(State)
                                 /\ greenpoints = SC!greenscore(State)
  OBVIOUS
<1>3. State \in SC!ResetStates => /\ SC!Phase = "play"
                                  /\ redpoints = SC!redscore(SC!AfterReset(State))
                                  /\ greenpoints = SC!greenscore(SC!AfterReset(State))
  OBVIOUS
<1>4. State = "redwins" => SC!Phase = "redwon" /\ redpoints = 0 /\ greenpoints = 0
  BY DEF SC!redscore, SC!greenscore
<1>5. State = "greenwins" => SC!Phase = "greenwon" /\ redpoints = 0 /\ greenpoints = 0
  BY DEF SC!redscore, SC!greenscore
<1> QED BY <1>1, <1>2, <1>3, <1>4, <1>5

LEMMA ShownNext ==
  /\ State' = "start" => SC!Phase' = "title" /\ redpoints' = 0 /\ greenpoints' = 0
  /\ State' \in SC!GameStates => /\ SC!Phase' = "play" /\ redpoints' = SC!redscore(State')
                                 /\ greenpoints' = SC!greenscore(State')
  /\ State' \in SC!ResetStates => /\ SC!Phase' = "play"
                                  /\ redpoints' = SC!redscore(SC!AfterReset(State'))
                                  /\ greenpoints' = SC!greenscore(SC!AfterReset(State'))
  /\ State' = "redwins" => SC!Phase' = "redwon" /\ redpoints' = 0 /\ greenpoints' = 0
  /\ State' = "greenwins" => SC!Phase' = "greenwon" /\ redpoints' = 0 /\ greenpoints' = 0
<1> USE DEF SC!Phase, SC!currstate, SC!RoundOf, redpoints, greenpoints, SC!GameStates, SC!ResetStates
<1>1. State' = "start" => SC!Phase' = "title" /\ redpoints' = 0 /\ greenpoints' = 0
  BY DEF SC!redscore, SC!greenscore
<1>2. State' \in SC!GameStates => /\ SC!Phase' = "play" /\ redpoints' = SC!redscore(State')
                                  /\ greenpoints' = SC!greenscore(State')
  BY DEF SC!redscore, SC!greenscore
<1>3. State' \in SC!ResetStates => /\ SC!Phase' = "play"
                                   /\ redpoints' = SC!redscore(SC!AfterReset(State'))
                                   /\ greenpoints' = SC!greenscore(SC!AfterReset(State'))
  BY DEF SC!redscore, SC!greenscore, SC!AfterReset
<1>4. State' = "redwins" => SC!Phase' = "redwon" /\ redpoints' = 0 /\ greenpoints' = 0
  BY DEF SC!redscore, SC!greenscore
<1>5. State' = "greenwins" => SC!Phase' = "greenwon" /\ redpoints' = 0 /\ greenpoints' = 0
  BY DEF SC!redscore, SC!greenscore
<1> QED BY <1>1, <1>2, <1>3, <1>4, <1>5

\* A round won counts one point for its winner, or is the last one.
LEMMA RedRound ==
  \A s \in SC!GameStates :
     /\ SC!redscore(s) \in 0 .. 2
     /\ SC!redscore(s) = 2 => SC!OnRedWin(s) = "redwins"
     /\ SC!redscore(s) # 2 => /\ SC!OnRedWin(s) \in SC!ResetStates
                              /\ SC!redscore(SC!AfterReset(SC!OnRedWin(s))) = SC!redscore(s) + 1
                              /\ SC!greenscore(SC!AfterReset(SC!OnRedWin(s))) = SC!greenscore(s)
BY DEF SC!GameStates, SC!ResetStates, SC!OnRedWin, SC!AfterReset, SC!redscore, SC!greenscore

LEMMA GreenRound ==
  \A s \in SC!GameStates :
     /\ SC!greenscore(s) \in 0 .. 2
     /\ SC!greenscore(s) = 2 => SC!OnGreenWin(s) = "greenwins"
     /\ SC!greenscore(s) # 2 => /\ SC!OnGreenWin(s) \in SC!ResetStates
                                /\ SC!greenscore(SC!AfterReset(SC!OnGreenWin(s))) = SC!greenscore(s) + 1
                                /\ SC!redscore(SC!AfterReset(SC!OnGreenWin(s))) = SC!redscore(s)
BY DEF SC!GameStates, SC!ResetStates, SC!OnGreenWin, SC!AfterReset, SC!redscore, SC!greenscore

LEMMA InitFired == Init => FiredInRound
BY DEF Init, FiredInRound

LEMMA NextFired == FiredInRound /\ [Next]_vars => FiredInRound'
<1> SUFFICES ASSUME FiredInRound, [Next]_vars PROVE FiredInRound'
  OBVIOUS
<1>1. CASE Frame
  BY <1>1 DEF Frame, Observe, FiredInRound
<1>2. CASE Timer \/ Software \/ UNCHANGED vars
  <2>1. State' = State /\ fired' = fired
    BY <1>2 DEF Timer, Software, vars
  <2> QED BY <2>1 DEF FiredInRound, screen_reset, SC!screenreset
<1>3. CASE Key0
  BY <1>3 DEF Key0, FiredInRound
<1> QED BY <1>1, <1>2, <1>3 DEF Next

\* The steps of Duel, in the words of the registers.
LEMMA DuelStep ==
  /\ UNCHANGED <<SC!Phase, redpoints, greenpoints, fired>> => UNCHANGED D!duelVars
  /\ SC!Phase = "play" /\ fired' = TRUE /\ UNCHANGED <<SC!Phase, redpoints, greenpoints>> => D!DuelNext
  /\ /\ SC!Phase = "play" /\ fired /\ fired' = FALSE
     /\ IF redpoints + 1 = 3 THEN SC!Phase' = "redwon" /\ redpoints' = 0 /\ greenpoints' = 0
        ELSE redpoints' = redpoints + 1 /\ UNCHANGED <<SC!Phase, greenpoints>>
     => D!DuelNext
  /\ /\ SC!Phase = "play" /\ fired /\ fired' = FALSE
     /\ IF greenpoints + 1 = 3 THEN SC!Phase' = "greenwon" /\ redpoints' = 0 /\ greenpoints' = 0
        ELSE greenpoints' = greenpoints + 1 /\ UNCHANGED <<SC!Phase, redpoints>>
     => D!DuelNext
  /\ /\ fired' = FALSE /\ redpoints' = 0 /\ greenpoints' = 0
     /\ \/ SC!Phase = "title" /\ SC!Phase' = "play"
        \/ SC!Phase' = "title"
     => D!DuelNext
BY DEF D!DuelNext, D!Shoot, D!Decide, D!Change, D!RedScores, D!GreenScores, D!Start, D!Finish,
       D!Abandon, D!NoPoints, D!matchVars, D!duelVars, redpoints, greenpoints

LEMMA FrameIsDuelStep == ASSUME IInv, FiredInRound, Frame PROVE [D!DuelNext]_D!duelVars
<1> USE DEF Frame, SC!ScreenFrame
<1>1. State \in SC!AllStates /\ (redwin \/ greenwin => fired)
  BY DEF IInv, TypeOK, HitsFly, FlightFired
<1>2. screen_reset \/ screen_reset' => fired' = FALSE
  BY DEF Observe
<1>3. fired' \in BOOLEAN /\ fired \in BOOLEAN
  BY DEF Observe, IInv, TypeOK
<1>4. CASE State = "start"
  <2>1. fired = FALSE /\ fired' = FALSE
    BY <1>2, <1>3, <1>4, KindsApart DEF FiredInRound, screen_reset, SC!screenreset
  <2>2. State' \in {"start", "game00"}
    BY <1>4, KindsApart DEF SC!Next_state
  <2>3. CASE State' = "start"
    BY <1>4, <2>1, <2>3, Shown, ShownNext, DuelStep
  <2>4. CASE State' = "game00"
    <3>1. State' \in SC!GameStates /\ SC!redscore(State') = 0 /\ SC!greenscore(State') = 0
      BY <2>4 DEF SC!GameStates, SC!redscore, SC!greenscore
    <3> QED BY <1>4, <2>1, <3>1, Shown, ShownNext, DuelStep
  <2> QED BY <2>2, <2>3, <2>4
<1>5. CASE State \in SC!GameStates /\ redwin
  <2>1. fired = TRUE /\ State' = SC!OnRedWin(State)
    BY <1>1, <1>3, <1>5, KindsApart DEF SC!Next_state
  <2>2. CASE SC!redscore(State) = 2
    <3>1. State' = "redwins"
      BY <1>5, <2>1, <2>2, RedRound
    <3>2. fired' = FALSE
      BY <1>2, <3>1 DEF screen_reset, SC!screenreset, SC!GameStates
    <3> QED BY <1>5, <2>1, <2>2, <3>1, <3>2, Shown, ShownNext, DuelStep
  <2>3. CASE SC!redscore(State) # 2
    <3>1. /\ State' \in SC!ResetStates
          /\ SC!redscore(SC!AfterReset(State')) = SC!redscore(State) + 1
          /\ SC!greenscore(SC!AfterReset(State')) = SC!greenscore(State)
          /\ SC!redscore(State) + 1 # 3
      BY <1>5, <2>1, <2>3, RedRound
    <3>2. fired' = FALSE
      BY <1>2, <3>1, KindsApart DEF screen_reset, SC!screenreset
    <3> QED BY <1>5, <2>1, <3>1, <3>2, Shown, ShownNext, DuelStep
  <2> QED BY <2>2, <2>3
<1>6. CASE State \in SC!GameStates /\ ~redwin /\ greenwin
  <2>1. fired = TRUE /\ State' = SC!OnGreenWin(State)
    BY <1>1, <1>3, <1>6, KindsApart DEF SC!Next_state
  <2>2. CASE SC!greenscore(State) = 2
    <3>1. State' = "greenwins"
      BY <1>6, <2>1, <2>2, GreenRound
    <3>2. fired' = FALSE
      BY <1>2, <3>1 DEF screen_reset, SC!screenreset, SC!GameStates
    <3> QED BY <1>6, <2>1, <2>2, <3>1, <3>2, Shown, ShownNext, DuelStep
  <2>3. CASE SC!greenscore(State) # 2
    <3>1. /\ State' \in SC!ResetStates
          /\ SC!greenscore(SC!AfterReset(State')) = SC!greenscore(State) + 1
          /\ SC!redscore(SC!AfterReset(State')) = SC!redscore(State)
          /\ SC!greenscore(State) + 1 # 3
      BY <1>6, <2>1, <2>3, GreenRound
    <3>2. fired' = FALSE
      BY <1>2, <3>1, KindsApart DEF screen_reset, SC!screenreset
    <3> QED BY <1>6, <2>1, <3>1, <3>2, Shown, ShownNext, DuelStep
  <2> QED BY <2>2, <2>3
<1>7. CASE State \in SC!GameStates /\ ~redwin /\ ~greenwin
  <2>1. State' = State
    BY <1>7, KindsApart DEF SC!Next_state
  <2>2. fired => fired'
    BY <1>7, <2>1 DEF Observe, screen_reset, SC!screenreset
  <2>3. SC!Phase = "play" /\ UNCHANGED <<SC!Phase, redpoints, greenpoints>>
    BY <1>7, <2>1, Shown, ShownNext
  <2>4. fired' = TRUE \/ fired' = fired
    BY <1>3, <2>2
  <2> QED BY <2>3, <2>4, DuelStep
<1>8. CASE State \in SC!ResetStates
  <2>1. fired = FALSE /\ fired' = FALSE
    BY <1>2, <1>3, <1>8, KindsApart DEF FiredInRound, screen_reset, SC!screenreset
  <2>2. State' = SC!AfterReset(State) /\ State' \in SC!GameStates
    <3>1. State' = SC!AfterReset(State)
      BY <1>8, KindsApart DEF SC!Next_state
    <3> QED BY <1>8, <3>1 DEF SC!ResetStates, SC!GameStates, SC!AfterReset
  <2> QED BY <1>8, <2>1, <2>2, Shown, ShownNext, DuelStep
<1>9. CASE State \in SC!WinStates
  <2>1. fired = FALSE /\ fired' = FALSE
    BY <1>2, <1>3, <1>9, KindsApart DEF FiredInRound, screen_reset, SC!screenreset
  <2>2. State' \in {"start", State}
    BY <1>9, KindsApart DEF SC!Next_state
  <2>3. CASE State' = State
    BY <1>9, <2>1, <2>3, Shown, ShownNext, DuelStep DEF SC!WinStates
  <2>4. CASE State' = "start"
    BY <1>9, <2>1, <2>4, Shown, ShownNext, DuelStep
  <2> QED BY <2>2, <2>3, <2>4
<1> QED BY <1>1, <1>4, <1>5, <1>6, <1>7, <1>8, <1>9 DEF SC!AllStates

\* Put together, screens, fire control and bullets play matches to three points
\* in which every round is decided by a shot of its own (Tank_Trouble_TL.sv).
THEOREM GameImplementsDuel == Spec => ImplementsDuel
<1>1. Init => D!DuelInit
  BY Shown DEF Init, SC!ScreenInit, D!DuelInit, D!MatchInit, redpoints, greenpoints
<1>2. IInv /\ FiredInRound /\ [Next]_vars => [D!DuelNext]_D!duelVars
  <2> SUFFICES ASSUME IInv, FiredInRound, [Next]_vars PROVE [D!DuelNext]_D!duelVars
    OBVIOUS
  <2>1. CASE Frame
    BY <2>1, FrameIsDuelStep
  <2>2. CASE Timer \/ Software \/ UNCHANGED vars
    <3>1. State' = State /\ fired' = fired
      BY <2>2 DEF Timer, Software, vars
    <3> QED BY <3>1 DEF D!duelVars, D!matchVars, SC!Phase, SC!currstate, SC!RoundOf
  <2>3. CASE Key0
    <3>1. State' = "start" /\ fired' = FALSE
      BY <2>3 DEF Key0, SC!ScreenReset
    <3> QED BY <3>1, ShownNext, DuelStep
  <2> QED BY <2>1, <2>2, <2>3 DEF Next
<1> QED BY <1>1, <1>2, IInvHolds, InitFired, NextFired, PTL DEF Spec, ImplementsDuel, D!DuelSpec
=============================================================================
