---------------------------- MODULE LidarConfig ----------------------------
(***************************************************************************)
(* How the Livox driver sets up its lidars (livox_lidar_callback.cpp).     *)
(*                                                                         *)
(* The SDK notifies the driver of a lidar, from one of its threads.  The   *)
(* driver then sets, under config_mutex_, a bit for every option that the  *)
(* configuration file gives and asks the lidar for it; each answer, in a   *)
(* thread of the SDK again, clears the option's bit, and the one that      *)
(* clears the last bit makes the lidar sample: Lddc publishes its points   *)
(* from then on (LdsPointQueue's StartSampling).  Requests fail, or time   *)
(* out and are sent again; the SDK may notify the driver of the same lidar *)
(* again while old requests are under way.                                 *)
(*                                                                         *)
(* The four options are handled by four callbacks that differ in nothing   *)
(* but the bit, so they are one action with the option as parameter.  The  *)
(* requests for the work mode, the attitude and the IMU change no state of *)
(* the driver and are left out.                                            *)
(***************************************************************************)
EXTENDS Integers

CONSTANTS Lidars,      \* handles of the lidars on the network
          Defined,     \* those that the configuration file defines
          Options,     \* kConfigDataType, kConfigScanPattern, ...
          Given,       \* options that the file gives the defined lidars
          MaxNotify,   \* bound: notifications of each lidar
          NoLidar

ASSUME LidarsAssumption == Defined \subseteq Lidars /\ NoLidar \notin Lidars
ASSUME OptionsAssumption == Given \subseteq Options
ASSUME NotifyAssumption == MaxNotify \in Nat

VARIABLES
  known,      \* lidars that cache_index_ has an index for
  mutex,      \* the lidar whose notification holds config_mutex_
  todo,       \* the options that this notification has still to ask for
  set_bits,   \* options whose bit is set, for each lidar
  sampling,   \* lidars whose connect_state is kConnectStateSampling
  pending,    \* requests under way, for each lidar and option
  notified,   \* notifications so far
  applied,    \* history: options that the lidar has carried out
  failed      \* history: options whose request failed

config == <<mutex, todo, set_bits, sampling, pending>>
history == <<applied, failed>>
vars == <<known, config, notified, history>>

\* GetFreeIndex leaves the livox_config of a lidar that the file does not
\* define as it is: zero, and so different from -1 for every option.
Config(h) == IF h \in Defined THEN Given ELSE Options

\* No lidar has been notified.
Quiet ==
  /\ mutex = NoLidar /\ todo = {}
  /\ set_bits = [h \in Lidars |-> {}]
  /\ sampling = {}
  /\ pending = [r \in Lidars \X Options |-> 0]
  /\ notified = [h \in Lidars |-> 0]
  /\ applied = [h \in Lidars |-> {}] /\ failed = [h \in Lidars |-> {}]

\* InitLivoxLidar has entered the defined lidars.
Init == known = Defined /\ Quiet

Unlocked == mutex = NoLidar

\* Fault: the answers do not take config_mutex_.
MayClear_NoLock == TRUE

\* An answer clears its bit under config_mutex_.
MayClear == Unlocked

-----------------------------------------------------------------------------
(* LidarInfoChangeCallback *)

Notify(h) == notified[h] < MaxNotify /\ notified' = [notified EXCEPT ![h] = @ + 1]

\* A lidar that has no index yet gets one, and no options.
AddLidar(h) ==
  /\ h \notin known /\ Notify(h)
  /\ known' = known \cup {h}
  /\ UNCHANGED <<config, history>>

Lock(h) ==
  /\ h \in known /\ Unlocked /\ Notify(h)
  /\ mutex' = h /\ todo' = Config(h)
  /\ UNCHANGED <<known, set_bits, sampling, pending, history>>

\* The bit is set before the request is sent; the order of the options does
\* not matter.
SetOption(s) ==
  /\ ~Unlocked /\ s \in todo
  /\ todo' = todo \ {s}
  /\ set_bits' = [set_bits EXCEPT ![mutex] = @ \cup {s}]
  /\ pending' = [pending EXCEPT ![<<mutex, s>>] = @ + 1]
  /\ UNCHANGED <<known, mutex, sampling, notified, history>>

Unlock ==
  /\ ~Unlocked /\ todo = {}
  /\ mutex' = NoLidar
  /\ UNCHANGED <<known, todo, set_bits, sampling, pending, notified, history>>

LidarInfoChangeCallback ==
  (\E h \in Lidars : AddLidar(h) \/ Lock(h)) \/ (\E s \in Options : SetOption(s)) \/ Unlock

-----------------------------------------------------------------------------
(* SetDataTypeCallback, SetPatternModeCallback, SetBlindSpotCallback and   *)
(* SetDualEmitCallback                                                     *)

\* Fault: an answer is taken although no request is under way.
Answered_Unasked(h, s) == pending' = [pending EXCEPT ![<<h, s>>] = @ - 1]

Answered(h, s) == pending[<<h, s>>] > 0 /\ pending' = [pending EXCEPT ![<<h, s>>] = @ - 1]

\* Fault: the bits are looked at before the answer's bit is cleared.
Succeeds_StaleTest(h, s) ==
  /\ MayClear /\ Answered(h, s)
  /\ set_bits' = [set_bits EXCEPT ![h] = @ \ {s}]
  /\ sampling' = IF set_bits[h] = {} THEN sampling \cup {h} ELSE sampling
  /\ applied' = [applied EXCEPT ![h] = @ \cup {s}]
  /\ UNCHANGED <<known, mutex, todo, notified, failed>>

Succeeds(h, s) ==
  /\ MayClear /\ Answered(h, s)
  /\ set_bits' = [set_bits EXCEPT ![h] = @ \ {s}]
  /\ sampling' = IF set_bits'[h] = {} THEN sampling \cup {h} ELSE sampling
  /\ applied' = [applied EXCEPT ![h] = @ \cup {s}]
  /\ UNCHANGED <<known, mutex, todo, notified, failed>>

\* Fault: a request that timed out is not sent again.
TimesOut_GiveUp(h, s) ==
  /\ Answered(h, s)
  /\ UNCHANGED <<known, mutex, todo, set_bits, sampling, notified, history>>

\* The request is sent again.  The lidar may have carried it out; that it has
\* not is the case that a lidar must not sample in.
TimesOut(h, s) ==
  /\ pending[<<h, s>>] > 0
  /\ UNCHANGED vars

\* Any other failure is logged.
Fails(h, s) ==
  /\ Answered(h, s)
  /\ failed' = [failed EXCEPT ![h] = @ \cup {s}]
  /\ UNCHANGED <<known, mutex, todo, set_bits, sampling, notified, applied>>

Answer(h, s) == Succeeds(h, s) \/ Fails(h, s)

Next ==
  \/ LidarInfoChangeCallback
  \/ \E h \in Lidars, s \in Options : Answer(h, s) \/ TimesOut(h, s)

Spec == Init /\ [][Next]_vars

\* A callback that has started finishes; every request is in the end answered
\* with something other than a timeout.
Fairness ==
  /\ \A s \in Options : WF_vars(SetOption(s))
  /\ WF_vars(Unlock)
  /\ \A h \in Lidars, s \in Options : SF_vars(Answer(h, s))

FairSpec == Spec /\ Fairness

-----------------------------------------------------------------------------
(* Properties *)

\* The type invariant; among the rest, only lidars with an index sample.
TypeOK ==
  /\ Defined \subseteq known /\ known \subseteq Lidars
  /\ mutex \in known \cup {NoLidar} /\ todo \subseteq Options
  /\ set_bits \in [Lidars -> SUBSET Options]
  /\ sampling \subseteq known
  /\ pending \in [Lidars \X Options -> Nat]
  /\ notified \in [Lidars -> 0 .. MaxNotify]
  /\ applied \in [Lidars -> SUBSET Options] /\ failed \in [Lidars -> SUBSET Options]

\* The points of a lidar are published only once it has carried out every
\* option of its configuration, however the answers, the timeouts and further
\* notifications interleave with the requests.
SamplesConfigured == \A h \in sampling : Config(h) \subseteq applied[h]

\* A bit that is set is waited for with reason: an answer that will clear it is
\* under way, or a failure has been reported.
BitsOutstanding ==
  \A h \in Lidars : \A s \in set_bits[h] : pending[<<h, s>>] > 0 \/ s \in failed[h]

\* A defined lidar that was notified and is given at least one option samples
\* in the end, unless a request failed.
ConfigEnds ==
  \A h \in Defined :
    (notified[h] > 0 /\ Given # {}) ~> (h \in sampling \/ failed[h] # {})
=============================================================================
