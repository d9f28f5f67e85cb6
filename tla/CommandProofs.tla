--------------------------- MODULE CommandProofs ---------------------------
(***************************************************************************)
(* What holds of the child commands and of the cache of git lookups for    *)
(* any deadline, pipe, output, TTL, and any directories and branches.      *)
(***************************************************************************)
EXTENDS GitCache, TLAPS

(***************************************************************************)
(* An output that is chosen whole is as long as outputs may be.            *)
(***************************************************************************)
LEMMA OutputFits ==
  ASSUME NEW n \in 0..MaxOutput
  PROVE  n \in Nat /\ 0 + n <= MaxOutput
  BY CommandAssumption DEF CommandAssumption

(***************************************************************************)
(* The state of the cache and of the command under way is well typed.      *)
(***************************************************************************)
THEOREM GitCacheTypeCorrect == GitCacheSpec => []GitCacheTypeOK
<1>. USE CommandAssumption, GitCacheAssumption DEF CommandAssumption, GitCacheAssumption
<1>1. GitCacheInit => GitCacheTypeOK
  BY DEF GitCacheInit, RunInit, GitCacheTypeOK, CommandTypeOK, Answers
<1>2. ASSUME GitCacheTypeOK, [GitCacheNext]_commandVars
      PROVE  GitCacheTypeOK'
  <2>. USE <1>2 DEF GitCacheTypeOK, CommandTypeOK, gitVars, runVars, Answers, Ends
  <2>1. ASSUME NEW cwd \in Cwds, Hit(cwd)
        PROVE  GitCacheTypeOK'
    BY <2>1 DEF Hit, Fresh
  <2>2. ASSUME NEW cwd \in Cwds, Miss(cwd)
        PROVE  GitCacheTypeOK'
    BY <2>2 DEF Miss
  <2>3. ASSUME NEW cwd \in Cwds, CheckOut(cwd)
        PROVE  GitCacheTypeOK'
    BY <2>3 DEF CheckOut
  <2>4. CASE BeginCommand
    <3>1. CASE Spawn
      <4>1. toWrite' \in 0..MaxOutput /\ written' = 0
        BY <3>1 DEF Spawn
      <4>2. holders' = {"child"} /\ helpers' = {} /\ pipe' = 0 /\ elapsed' = 0 /\ UNCHANGED gitVars
        BY <2>4, <3>1 DEF BeginCommand, Spawn
      <4>3. toWrite' \in Nat /\ 0 + toWrite' <= MaxOutput
        BY <4>1, OutputFits
      <4>4. holders' \subseteq Helpers' \cup {"child"} /\ helpers' \subseteq Helpers'
        BY <4>2
      <4>5. /\ phase' \in {"idle", "polling", "joining"} /\ child' \in {"none", "running"}
            /\ reader' \in {"none", "reading", "done"} /\ verdict' \in {"none"} \cup Ends
        BY <3>1 DEF Spawn
      <4>6. written' \in Nat /\ pipe' \in 0..PipeSize /\ elapsed' \in 0..Timeout
        BY <4>1, <4>2
      <4>7. CommandTypeOK'
        BY <4>1, <4>3, <4>4, <4>5, <4>6
      <4>. QED
        BY <4>2, <4>7
    <3>2. CASE SpawnFails
      BY <2>4, <3>2 DEF BeginCommand, SpawnFails
    <3>. QED
      BY <2>4, <3>1, <3>2 DEF BeginCommand
  <2>5. CASE GitChildExits
    <3>1. Printed \in Answers
      BY <2>5 DEF GitChildExits, Printed
    <3>. QED
      BY <2>5, <3>1 DEF GitChildExits, ChildExits
  <2>6. CASE NextCommand
    BY <2>6 DEF NextCommand
  <2>7. CASE Store
    BY <2>7 DEF Store, Fresh
  <2>8. CASE GitTick
    BY <2>8 DEF GitTick, RunAges, Older
  <2>9. CASE RunStep
    <3>1. CASE ChildWrites
      BY <2>9, <3>1 DEF RunStep, ChildWrites
    <3>2. CASE ChildForks
      <4>1. PICK helper \in Helpers : helpers' = {helper} /\ holders' \in {holders, holders \cup {helper}}
        BY <3>2 DEF ChildForks
      <4>. QED
        BY <2>9, <3>2, <4>1 DEF RunStep, ChildForks
    <3>6. CASE HelperExits
      BY <2>9, <3>6 DEF RunStep, HelperExits
    <3>3. CASE ReaderDrains \/ ReaderSeesEnd \/ JoinReader
      BY <2>9, <3>3 DEF RunStep, ReaderDrains, ReaderReads, ReaderSeesEnd, JoinReader
    <3>4. CASE PollReaps
      BY <2>9, <3>4 DEF RunStep, PollReaps
    <3>5. CASE PollTimesOut \/ PollFails
      BY <2>9, <3>5 DEF RunStep, PollTimesOut, PollFails, KillAndReap
    <3>. QED
      BY <2>9, <3>1, <3>2, <3>3, <3>4, <3>5, <3>6 DEF RunStep
  <2>10. CASE UNCHANGED commandVars
    BY <2>10 DEF commandVars
  <2>. QED
    BY <2>1, <2>2, <2>3, <2>4, <2>5, <2>6, <2>7, <2>8, <2>9, <2>10 DEF GitCacheNext
<1>. QED
  BY <1>1, <1>2, PTL DEF GitCacheSpec

-----------------------------------------------------------------------------
(***************************************************************************)
(* What makes NoProcessIsLeftBehind and NoneOverrunsOnOutput inductive.  A *)
(* child that runs is polled, holds its pipe and is read from; so no time  *)
(* passes while it can write, and what is still to be written when the     *)
(* first tick comes is nothing.                                            *)
(***************************************************************************)
RunInv ==
  /\ NoProcessIsLeftBehind
  /\ phase = "joining" => child \in {"reaped", "killed"}
  /\ child = "running" => phase = "polling" /\ "child" \in holders /\ reader = "reading"
  /\ child = "running" /\ elapsed > 0 => toWrite = 0

(***************************************************************************)
(* Every step keeps RunInv.                                                *)
(***************************************************************************)
LEMMA RunStepInvariant ==
  ASSUME GitCacheTypeOK, RunInv, [GitCacheNext]_commandVars
  PROVE  RunInv'
<1>. USE CommandAssumption DEF CommandAssumption, RunInv, NoProcessIsLeftBehind, GitCacheTypeOK, CommandTypeOK,
                              gitVars, runVars, Ends
<1>1. ASSUME NEW cwd \in Cwds, Hit(cwd) \/ Miss(cwd) \/ CheckOut(cwd)
      PROVE  RunInv'
  BY <1>1 DEF Hit, Miss, CheckOut
<1>2. CASE BeginCommand
  BY <1>2 DEF BeginCommand, Spawn, SpawnFails
<1>3. CASE GitChildExits
  BY <1>3 DEF GitChildExits, ChildExits
<1>4. CASE NextCommand \/ Store
  BY <1>4 DEF NextCommand, Store
<1>5. CASE GitTick
  BY <1>5 DEF GitTick, RunAges, RunIdles, ReaderReads
<1>6. CASE RunStep
  <2>1. CASE ChildWrites
    BY <1>6, <2>1 DEF RunStep, ChildWrites
  <2>2. CASE ChildForks
    BY <1>6, <2>2 DEF RunStep, ChildForks
  <2>3. CASE HelperExits
    BY <1>6, <2>3 DEF RunStep, HelperExits, Helpers
  <2>4. CASE ReaderDrains \/ ReaderSeesEnd \/ JoinReader
    BY <1>6, <2>4 DEF RunStep, ReaderDrains, ReaderReads, ReaderSeesEnd, JoinReader
  <2>5. CASE PollReaps
    BY <1>6, <2>5 DEF RunStep, PollReaps
  <2>6. CASE PollTimesOut \/ PollFails
    BY <1>6, <2>6 DEF RunStep, PollTimesOut, PollFails, KillAndReap, Group
  <2>. QED
    BY <1>6, <2>1, <2>2, <2>3, <2>4, <2>5, <2>6 DEF RunStep
<1>7. CASE UNCHANGED commandVars
  BY <1>7 DEF commandVars
<1>. QED
  BY <1>1, <1>2, <1>3, <1>4, <1>5, <1>6, <1>7 DEF GitCacheNext

LEMMA RunInvariant == GitCacheSpec => []RunInv
<1>1. GitCacheInit => RunInv
  BY DEF GitCacheInit, RunInit, RunInv, NoProcessIsLeftBehind
<1>2. GitCacheTypeOK /\ RunInv /\ [GitCacheNext]_commandVars => RunInv'
  BY RunStepInvariant
<1>. QED
  BY <1>1, <1>2, GitCacheTypeCorrect, PTL DEF GitCacheSpec

(***************************************************************************)
(* No path through run leaves a child running or unreaped, and a child     *)
(* that was killed leaves nothing of its group.                            *)
(***************************************************************************)
THEOREM NothingIsLeftBehind == GitCacheSpec => []NoProcessIsLeftBehind
<1>1. RunInv => NoProcessIsLeftBehind
  BY DEF RunInv
<1>. QED
  BY <1>1, RunInvariant, PTL

(***************************************************************************)
(* A child killed at the deadline had nothing left to write.               *)
(***************************************************************************)
THEOREM OutputNeverTimesOut == GitCacheSpec => NoneOverrunsOnOutput
<1>1. RunInv /\ [GitCacheNext]_commandVars => [PollTimesOut => toWrite = 0]_runVars
  BY CommandAssumption DEF CommandAssumption, RunInv, PollTimesOut
<1>. QED
  BY <1>1, RunInvariant, PTL DEF GitCacheSpec, NoneOverrunsOnOutput

-----------------------------------------------------------------------------
(***************************************************************************)
(* What makes SettledBranchIsShown inductive.  A directory that has been   *)
(* as it is for longer than its entry is old was so when the entry was     *)
(* made; one that has been so for some time, did not change in the lookup  *)
(* under way, and what the lookup has found so far is true of it.          *)
(***************************************************************************)
EntryIsTrue(cwd) ==
  cached[cwd] # NoEntry /\ cached[cwd].age < settled[cwd]
    => cached[cwd].branch \in {Shown(cwd), NoEntry}

LookupIsTrue(cwd) ==
  lookup = cwd /\ settled[cwd] > 0 =>
    /\ command # "remote" /\ (child \in Ends \/ verdict = "success") => read = Printed
    /\ command = "bookmark" => checkedOut[cwd] = "HEAD"
    /\ command = "remote" => branch \in {Shown(cwd), NoEntry}

CacheInv ==
  /\ phase \in {"polling", "joining"} => lookup # NoEntry
  /\ phase = "polling" => verdict = "none"
  /\ lookup # NoEntry => command # "none"
  /\ \A cwd \in Cwds : EntryIsTrue(cwd) /\ LookupIsTrue(cwd)

(***************************************************************************)
(* A directory's own part of CacheInv is kept by every step.               *)
(***************************************************************************)
LEMMA CacheStepInvariant ==
  ASSUME GitCacheTypeOK, GitCacheTypeOK', RunInv, CacheInv, [GitCacheNext]_commandVars
  PROVE  CacheInv'
<1>. USE CommandAssumption, GitCacheAssumption DEF CommandAssumption, GitCacheAssumption,
         CacheInv, EntryIsTrue, LookupIsTrue, RunInv, NoProcessIsLeftBehind, GitCacheTypeOK,
         CommandTypeOK, gitVars, runVars, Ends, Shown, Printed
<1>1. ASSUME NEW cwd \in Cwds, Hit(cwd)
      PROVE  CacheInv'
  BY <1>1 DEF Hit
<1>2. ASSUME NEW cwd \in Cwds, Miss(cwd)
      PROVE  CacheInv'
  BY <1>2 DEF Miss
<1>3. ASSUME NEW cwd \in Cwds, CheckOut(cwd)
      PROVE  CacheInv'
  BY <1>3 DEF CheckOut
<1>4. CASE BeginCommand
  <2>1. CASE Spawn
    BY <1>4, <2>1 DEF BeginCommand, Spawn
  <2>2. CASE SpawnFails
    BY <1>4, <2>2 DEF BeginCommand, SpawnFails
  <2>. QED
    BY <1>4, <2>1, <2>2 DEF BeginCommand
<1>5. CASE GitChildExits
  BY <1>5 DEF GitChildExits, ChildExits
<1>6. CASE NextCommand
  BY <1>6 DEF NextCommand, CommandReturned, AsksJj
<1>7. CASE Store
  BY <1>7 DEF Store, Fresh, CommandReturned
<1>8. CASE GitTick
  BY <1>8 DEF GitTick, RunAges, Older
<1>9. CASE RunStep
  <2>1. CASE ChildWrites \/ ChildForks \/ HelperExits
    BY <1>9, <2>1 DEF RunStep, ChildWrites, ChildForks, HelperExits
  <2>2. CASE ReaderDrains \/ ReaderSeesEnd \/ JoinReader
    BY <1>9, <2>2 DEF RunStep, ReaderDrains, ReaderReads, ReaderSeesEnd, JoinReader
  <2>3. CASE PollReaps
    BY <1>9, <2>3 DEF RunStep, PollReaps
  <2>4. CASE PollTimesOut \/ PollFails
    BY <1>9, <2>4 DEF RunStep, PollTimesOut, PollFails, KillAndReap
  <2>. QED
    BY <1>9, <2>1, <2>2, <2>3, <2>4 DEF RunStep
<1>10. CASE UNCHANGED commandVars
  BY <1>10 DEF commandVars
<1>. QED
  BY <1>1, <1>2, <1>3, <1>4, <1>5, <1>6, <1>7, <1>8, <1>9, <1>10 DEF GitCacheNext

(***************************************************************************)
(* A directory that has been as it is for the TTL is shown as it is, or    *)
(* not at all, for any number of directories and any TTL.                  *)
(***************************************************************************)
THEOREM SettledBranchShown == GitCacheSpec => SettledBranchIsShown
<1>1. GitCacheInit => CacheInv
  BY DEF GitCacheInit, RunInit, CacheInv, EntryIsTrue, LookupIsTrue
<1>2. GitCacheTypeOK /\ GitCacheTypeOK' /\ RunInv /\ CacheInv /\ [GitCacheNext]_commandVars
        => CacheInv'
  BY CacheStepInvariant
<1>3. GitCacheTypeOK /\ CacheInv /\ [GitCacheNext]_commandVars
        => [\A cwd \in Cwds : (Hit(cwd) \/ (Store /\ lookup = cwd)) /\ settled[cwd] = GitTTL =>
              answer'.branch \in {Shown(cwd), NoEntry}]_commandVars
  <2>. SUFFICES ASSUME GitCacheTypeOK, CacheInv, NEW cwd \in Cwds, settled[cwd] = GitTTL,
                       Hit(cwd) \/ (Store /\ lookup = cwd)
                PROVE  answer'.branch \in {Shown(cwd), NoEntry}
    OBVIOUS
  <2>1. CASE Hit(cwd)
    BY <2>1 DEF Hit, Fresh, CacheInv, EntryIsTrue, GitCacheTypeOK
  <2>2. CASE Store /\ lookup = cwd
    BY <2>2, GitCacheAssumption DEF Store, CacheInv, LookupIsTrue, GitCacheTypeOK, GitCacheAssumption
  <2>. QED
    BY <2>1, <2>2
<1>. QED
  BY <1>1, <1>2, <1>3, RunInvariant, GitCacheTypeCorrect, PTL
  DEF GitCacheSpec, SettledBranchIsShown
=============================================================================
