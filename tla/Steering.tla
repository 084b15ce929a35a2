------------------------------- MODULE Steering -------------------------------
(***************************************************************************)
(* The way from a packet of the remote control to a wheel of the swerve:   *)
(* the controllers decode it (robotics/controller), the swerve turns its   *)
(* stick and its angle into the direction of each wheel                    *)
(* (component/swerve), and AngledMotor follows that direction over full    *)
(* turns (filter).  Everything is callbacks of one thread, so that an      *)
(* input and all that it propagates are one step.                          *)
(*                                                                         *)
(* One wheel; the others see the same inputs and nothing of each other.    *)
(* Angles are whole degrees; sticks point in eight directions or rest.     *)
(* A node that is set to what it holds propagates nothing.                 *)
(***************************************************************************)
EXTENDS Integers

CONSTANTS Sticks,    \* what the stick may say: pairs of -1, 0 and 1
          RawAngles, \* what an encoder may say, in degrees
          RobotAngles, \* what the gyro may say, in degrees
          Gains,     \* proportional gains of the robot's angle
          WheelId,   \* id of the wheel's encoder
          angle_deg, \* where the wheel is mounted
          MaxInputs  \* bound: inputs in a behaviour

ASSUME SteeringAssumption ==
  /\ Sticks \subseteq (-1..1) \X (-1..1)
  /\ RawAngles \subseteq -360..360 /\ RobotAngles \subseteq 0..360
  /\ Gains \subseteq Nat /\ WheelId \in 0..2 /\ MaxInputs \in Nat
  /\ angle_deg \in Int /\ angle_deg % 45 = 0

VARIABLES
  enabled,      \* rotation_pid_enabled
  angle_out,    \* the angle of SwerveController
  encoder,      \* motor_encoder: its value, and inv_, which nobody sets at first
  wheel,        \* Motor with its AngledMotor
  turn,         \* the swerve's way from angle_ctrl to the rotation of the wheels
  inputs        \* inputs so far

steerVars == <<enabled, angle_out, encoder, wheel, turn, inputs>>

-----------------------------------------------------------------------------
(***************************************************************************)
(* AngleNormalizer: it adds the change of its input to value, by the       *)
(* shorter way round.  output follows value, but not when it is reset.     *)
(* anew is history: it was reset, or got another offset, and was not fed   *)
(* since.                                                                  *)
(***************************************************************************)
Normalizer == [input |-> 0, offset |-> 0, prev_input |-> 0, value |-> 0,
               output |-> 0, anew |-> {}]

\* slip: only turns to the right are shortened
SlipShorter(d) == IF d > 180 THEN d - 360 ELSE d

Shorter(d) == CASE d > 180  -> d - 360
                [] d < -180 -> d + 360
                [] OTHER    -> d

Smooth(n) ==
  LET new == n.input + n.offset
      sum == n.value + Shorter(new - n.prev_input)
      out == IF new = 0 /\ sum % 360 = 0 THEN 0 ELSE sum
  IN  [n EXCEPT !.prev_input = new, !.value = out, !.output = out, !.anew = {}]

SetInput(n, x) == IF x = n.input THEN n ELSE Smooth([n EXCEPT !.input = x])

\* A change of the offset sets the input to what it is, which does nothing.
SetOffset(n, x) == [n EXCEPT !.offset = x, !.anew = @ \cup {"offset"}]

\* slip: the last input is kept
SlipReset(n) == [n EXCEPT !.value = 0, !.anew = @ \cup {"reset"}]

Reset(n) == [n EXCEPT !.prev_input = 0, !.value = 0, !.anew = @ \cup {"reset"}]

-----------------------------------------------------------------------------
\* atan2 in degrees; a stick at rest gives y a minus zero, and x < 0 then -180.
Direction(x, y) ==
  CASE x > 0 -> 45 * y
    [] x = 0 -> 90 * y
    [] OTHER -> IF y = 0 THEN -180 ELSE 135 * y

Opposite(a) == IF a <= 0 THEN a + 180 ELSE a - 180

\* In hundredths, of multiples of 45 degrees.
Sin(a) == LET s == <<0, 71, 100, 71, 0, -71, -100, -71>> IN s[((a \div 45) % 8) + 1]

(***************************************************************************)
(* UpdateAnglePower: the velocity, turned, is made longer or shorter by    *)
(* the rotation, or even reversed.  Joystick2Angle: what is shorter than   *)
(* 0.05 points nowhere, which is angle 0.                                  *)
(***************************************************************************)
UpdateAnglePower(w) ==
  LET x == -w.velocity[2]
      y == -w.velocity[1]
      factor == 27000 + w.rotation * Sin(angle_deg + Direction(x, y))
      length == CASE x # 0 /\ y # 0 -> 141
                  [] x = 0 /\ y = 0 -> 0
                  [] OTHER -> 100
      power == (length * (IF factor < 0 THEN -factor ELSE factor)) \div 27000
      goal == CASE power < 5 -> 0
                [] power >= 5 /\ factor > 0 -> Direction(x, y)
                [] OTHER -> Opposite(Direction(x, y))
  IN  [w EXCEPT !.drive_ = power, !.goal = SetInput(@, goal)]

SetVelocity(w, v) == UpdateAnglePower([w EXCEPT !.velocity = v])
SetRotation(w, r) == UpdateAnglePower([w EXCEPT !.rotation = r])

-----------------------------------------------------------------------------
(***************************************************************************)
(* Swerve.  The muxer hands the wheels the output of the angle's PID (0)   *)
(* or angle_ctrl itself (1): when the selected one changes, and when it is *)
(* selected.                                                               *)
(***************************************************************************)
Rotation(t) == IF t.selected_ = 0 THEN t.output_ ELSE t.rot_in.input

SetAngleCtrl(a) ==
  /\ turn' = [turn EXCEPT !.rot_in = SetInput(@, a)]
  /\ wheel' = IF turn.selected_ = 1 THEN SetRotation(wheel, a) ELSE wheel

\* slip: what is selected is handed on with its next change only
SlipSelect(index) == turn' = [turn EXCEPT !.selected_ = index] /\ UNCHANGED wheel

Select(index) ==
  /\ turn' = [turn EXCEPT !.selected_ = index]
  /\ wheel' = SetRotation(wheel, Rotation(turn'))

SetAnglePID(on) == Select(IF on THEN 0 ELSE 1)

\* PID::Update with a proportional gain alone; the wheel's power is left out.
Update ==
  /\ turn' = [turn EXCEPT !.output_ = turn.gain * (turn.rot_in.output - turn.self_rot.output)]
  /\ wheel' = IF turn.selected_ = 0 THEN SetRotation(wheel, turn'.output_) ELSE wheel
  /\ UNCHANGED <<enabled, angle_out, encoder>>

SetGains(p) ==
  /\ turn' = [turn EXCEPT !.gain = p]
  /\ UNCHANGED <<enabled, angle_out, encoder, wheel>>

SetRobotAngle(a) ==
  /\ turn' = [turn EXCEPT !.self_rot = SetInput(@, a)]
  /\ UNCHANGED <<enabled, angle_out, encoder, wheel>>

\* The normalizers begin anew; the nodes keep what they hold.
ResetSwerve ==
  /\ wheel' = [wheel EXCEPT !.goal = Reset(@), !.feedback = Reset(@)]
  /\ turn' = [turn EXCEPT !.rot_in = Reset(@), !.self_rot = Reset(@)]
  /\ UNCHANGED <<enabled, angle_out, encoder>>

\* AddOffset(180).
InverseSteerMotor ==
  LET sum == wheel.goal.offset + 180
      new == IF sum > 180 THEN sum - 360 ELSE sum
  IN  /\ wheel' = [wheel EXCEPT !.goal = SetOffset(@, new)]
      /\ UNCHANGED <<enabled, angle_out, encoder, turn>>

-----------------------------------------------------------------------------
(***************************************************************************)
(* SwerveController::Pass and SwerveValueStore::Pass, each packet as its   *)
(* controller parses it.  Short packets change nothing.  What the nodes of *)
(* the controllers are linked to is up to the application: here to the     *)
(* nodes of the swerve that take the same values.                          *)
(***************************************************************************)
JoyStick(v) ==
  /\ wheel' = SetVelocity(wheel, v)
  /\ UNCHANGED <<enabled, angle_out, encoder, turn>>

Action(angle) ==
  /\ angle_out' = angle_out + angle
  /\ SetAngleCtrl(angle_out')
  /\ UNCHANGED <<enabled, encoder>>

Boolean(on) ==
  /\ enabled' = on
  /\ IF on # enabled THEN SetAnglePID(on)
                     ELSE UNCHANGED <<wheel, turn>>
  /\ UNCHANGED <<angle_out, encoder>>

OnCircle(a) == CASE a < 0   -> a + 360
                 [] a > 360 -> a - 360
                 [] OTHER   -> a

SetEncoder(e) ==
  /\ encoder' = e
  /\ wheel' = [wheel EXCEPT !.feedback = SetInput(@, e.value)]
  /\ UNCHANGED <<enabled, angle_out, turn>>

\* The zero of each encoder is in the code, here in whole degrees.
ZeroOf(id) == CASE id = 0 -> 91 [] id = 1 -> 206 [] id = 2 -> 323

ParseEncoder(raw) ==
  SetEncoder([encoder EXCEPT !.value =
    LET value == raw + ZeroOf(WheelId) + (IF encoder.inv_ THEN 179 ELSE 0)
    IN  OnCircle(value)])

\* Half a turn is added whether the argument says so or not.
ToggleInv(inv) == SetEncoder([value |-> OnCircle(encoder.value + 179), inv_ |-> inv])

Input == \/ \E v \in Sticks : JoyStick(v)
         \/ \E angle \in {-45, 45} : Action(angle)
         \/ \E on \in BOOLEAN : Boolean(on)
         \/ \E raw \in RawAngles : ParseEncoder(raw)
         \/ \E inv \in BOOLEAN : ToggleInv(inv)
         \/ \E p \in Gains : SetGains(p)
         \/ \E a \in RobotAngles : SetRobotAngle(a)
         \/ Update \/ ResetSwerve \/ InverseSteerMotor

SteerInit ==
  /\ enabled = FALSE /\ angle_out = 0
  /\ encoder \in {[value |-> 0, inv_ |-> inv] : inv \in BOOLEAN}
  /\ wheel = [velocity |-> <<0, 0>>, rotation |-> 0, drive_ |-> 0,
              goal |-> Normalizer, feedback |-> Normalizer]
  /\ turn = [rot_in |-> Normalizer, self_rot |-> Normalizer, gain |-> 0,
             output_ |-> 0, selected_ |-> 0]
  /\ inputs = 0

SteerNext == inputs < MaxInputs /\ inputs' = inputs + 1 /\ Input

SteerSpec == SteerInit /\ [][SteerNext]_steerVars

-----------------------------------------------------------------------------
(***************************************************************************)
(* What the PIDs see as their error is the error: but for full turns, goal *)
(* plus offset less feedback, for the wheel and for the robot, whatever    *)
(* was reset in between.  A new offset counts from the next goal on.       *)
(***************************************************************************)
SameAngle(a, b) == (a - b) % 360 = 0

ErrorsAreRight ==
  /\ "offset" \notin wheel.goal.anew => SameAngle(wheel.goal.output, wheel.goal.input + wheel.goal.offset)
  /\ SameAngle(wheel.feedback.output, wheel.feedback.input)
  /\ SameAngle(turn.rot_in.output - turn.self_rot.output,
               turn.rot_in.input - turn.self_rot.input)

(***************************************************************************)
(* libs/README.md:28, "359 -> 1 is taken for 359 -> 361": a normalizer     *)
(* moves its output by half a turn at most, unless it was reset, its       *)
(* offset changed or it is back at zero.                                   *)
(***************************************************************************)
Gently(n, next) ==
  n.anew # {} \/ next.output = 0 \/ next.output - n.output \in -180..180

ShortWay ==
  [][ /\ Gently(wheel.goal, wheel'.goal)
      /\ Gently(wheel.feedback, wheel'.feedback)
      /\ Gently(turn.rot_in, turn'.rot_in)
      /\ Gently(turn.self_rot, turn'.self_rot) ]_steerVars

(***************************************************************************)
(* The wheels turn with what is selected, the PID's output or the angle    *)
(* asked for, as it is now: switching over leaves nothing of the other     *)
(* behind.                                                                 *)
(***************************************************************************)
RotationFollows == wheel.rotation = Rotation(turn)
===============================================================================
