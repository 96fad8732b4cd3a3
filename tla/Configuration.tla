----------------------------- MODULE Configuration -----------------------------
(***************************************************************************)
(* Who drives which gimbal: the gimbals and their follow= as load_config   *)
(* of src/core/config.cpp reads and corrects them, and the split into      *)
(* leaders and followers in src/main.cpp, before any tracking thread runs. *)
(*                                                                         *)
(* A key of the file is the set of its values: empty where it is missing   *)
(* or not a number.  Gimbals are numbered from 1, as in the file.  Of the  *)
(* other settings one stands for all whose integer is narrowed and then    *)
(* guarded: manual_timeout_ms, with its camera's section over the common   *)
(* one.                                                                    *)
(***************************************************************************)
EXTENDS Integers

CONSTANTS
  MaxGroups,      (* [can_1] to [can_8]                                     *)
  FollowValues,   (* integers that follow= and the timeout have in a file   *)
  TimeoutValues

VARIABLES
  groups,         (* the file: which [can_N] it has                         *)
  followKey,
  timeoutKey,     (* manual_timeout_ms of [tracking_N], of [tracking_N.rgb] *)
  overrideKey,
  pc,
  follow,         (* per gimbal, its follow_                                *)
  g,              (* the gimbal to be checked next                          *)
  timeout,        (* manual_timeout_ms_                                     *)
  leaders,        (* the gimbals with a thread                              *)
  followers       (* per gimbal                                             *)

inFile == <<groups, followKey, timeoutKey, overrideKey>>
result == <<leaders, followers>>
configVars == <<inFile, pc, follow, g, timeout, result>>

(* The sections on gimbals: [can], here 0, counts only without [can_1]. *)
Sections(numbered) == IF 1 \in numbered THEN numbered ELSE {0}

Keys(values) == {{}} \cup {{v} : v \in values}

Init ==
  /\ groups \in SUBSET (1 .. MaxGroups)
  /\ followKey \in [Sections(groups) -> Keys(FollowValues)]
  /\ timeoutKey \in Keys(TimeoutValues)
  /\ overrideKey \in Keys(TimeoutValues)
  /\ pc = "read"
  /\ follow = <<>>
  /\ g = 1
  /\ timeout = 0
  /\ leaders = {}
  /\ followers = <<>>

-----------------------------------------------------------------------------

Word == 65536   (* how many values a uint16_t has *)

(* read_uint<uint16_t>: what is a number is narrowed, whatever its size. *)
Uint16(key, fallback) ==
  IF key = {} THEN fallback ELSE (CHOOSE v \in key : TRUE) % Word

(* Mutants: a gimbal may follow one that follows; the last gimbal cannot   *)
(* be followed.                                                            *)

NotALeaderInRange(f, i) == f[i] # 0 /\ (f[i] \notin DOMAIN f \/ f[i] = i)

NotALeaderOrLast(f, i) ==
  /\ f[i] # 0
  /\ f[i] + 1 \notin DOMAIN f \/ f[i] = i \/ f[f[i]] # 0

-----------------------------------------------------------------------------

Guarded(key, fallback) ==
  IF Uint16(key, fallback) <= 0 THEN 150 ELSE Uint16(key, fallback)

(* The gimbals of the numbered groups, up to the first gap. *)
Numbered == {n \in 1 .. MaxGroups : 1 .. n \subseteq groups}

(* What the file gives each gimbal to follow; [can] alone is gimbal 1. *)
Followed ==
  IF 1 \in groups THEN [i \in Numbered |-> Uint16(followKey[i], 0)]
  ELSE [i \in {1} |-> Uint16(followKey[0], 0)]

ReadGimbals ==
  /\ pc = "read"
  /\ follow' = Followed
  /\ timeout' = Guarded(overrideKey, Guarded(timeoutKey, 150))
  /\ pc' = "check"
  /\ UNCHANGED <<inFile, g, result>>

(* What gimbal i follows is not there, itself, or follows another. *)
NotALeader(f, i) ==
  /\ f[i] # 0
  /\ f[i] \notin DOMAIN f \/ f[i] = i \/ f[f[i]] # 0

CheckFollow ==
  /\ pc = "check"
  /\ g \in DOMAIN follow
  /\ follow' = IF NotALeader(follow, g) THEN [follow EXCEPT ![g] = 0] ELSE follow
  /\ g' = g + 1
  /\ UNCHANGED <<inFile, pc, timeout, result>>

Loaded ==
  /\ pc = "check"
  /\ g \notin DOMAIN follow
  /\ pc' = "split"
  /\ UNCHANGED <<inFile, follow, g, timeout, result>>

Split ==
  /\ pc = "split"
  /\ leaders' = {i \in DOMAIN follow : follow[i] = 0}
  /\ followers' = [l \in DOMAIN follow |-> {i \in DOMAIN follow : follow[i] = l}]
  /\ pc' = "running"
  /\ UNCHANGED <<inFile, follow, g, timeout>>

Next == ReadGimbals \/ CheckFollow \/ Loaded \/ Split

Spec == Init /\ [][Next]_configVars

-----------------------------------------------------------------------------

Drives(l, i) == l = i \/ i \in followers[l]

(***************************************************************************)
(* Whatever the file says, and in whatever order its groups refer to one   *)
(* another, every gimbal is driven by exactly one thread: none is left to  *)
(* a leader that is itself a follower, and so to nobody, and none has two  *)
(* (config.cpp:321, main.cpp:169).                                         *)
(***************************************************************************)
EveryGimbalHasOneDriver ==
  pc = "running" =>
    \A i \in DOMAIN follow :
      \E l \in leaders : Drives(l, i) /\ \A m \in leaders : Drives(m, i) => m = l

(***************************************************************************)
(* A gimbal that follows one which, in the file, follows nobody keeps it,  *)
(* whatever the pass has corrected before (config.cpp:326).                *)
(***************************************************************************)
GoodFollowsAreKept ==
  pc # "read" =>
    \A i \in DOMAIN follow :
      LET leader == Followed[i] IN
      leader \in DOMAIN follow \ {i} /\ Followed[leader] = 0 => follow[i] = leader

(***************************************************************************)
(* No integer in a file, however large or negative, gets past the guard as *)
(* zero: the guard looks at what narrowing leaves (config.cpp:32, 180).    *)
(***************************************************************************)
TimeoutIsUsable == pc # "read" => 0 < timeout /\ timeout < Word
=============================================================================
