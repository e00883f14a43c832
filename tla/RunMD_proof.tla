---------------------------- MODULE RunMD_proof ----------------------------
(***************************************************************************)
(* Proofs about RunMD, for any number of steps, kills and launches.        *)
(***************************************************************************)
EXTENDS RunMD, SequenceTheorems, TLAPS

Frames == [step : 0 .. Nstep, pos : Val, whole : BOOLEAN]
Structures == [whole : BOOLEAN, pos : Val, vel : Val]
Restarts == [lines : Off .. Len(Lines(inp.kind)), step : 0 .. Nstep,
             q : [Carried(inp.kind) -> Val]]

Working == {"step", "dump", "dump_write", "stru", "stru_write", "rst", "rst_write",
            "next"}

ControlInv ==
    /\ inp \in Inputs
    /\ pc \in Working \cup {"setup", "done", "killed", "quit"}
    /\ md_restart \in BOOLEAN /\ stop \in BOOLEAN /\ clean \in BOOLEAN
    /\ step_ \in Nat /\ step_rst_ \in 0 .. Nstep
    /\ Now <= Nstep + 1
    /\ pc \in Working => Now <= Nstep
    /\ pc = "setup" => step_ = 0 /\ step_rst_ = 0
    /\ launches \in 0 .. MaxLaunches
    /\ q \in [Carried(inp.kind) -> Val]

FilesInv ==
    /\ dump \in Seq(Frames)
    /\ stru \in [0 .. Nstep -> Structures]
    /\ rst \in Restarts
    /\ pc = "dump_write" => dump # <<>>
    /\ pc = "rst_write" => rst.step = Now /\ rst.lines \in 0 .. Len(Lines(inp.kind)) - 1

\* The structure and the Restart_md.dat that names it
PairInv ==
    /\ pc \in {"rst", "rst_write"} => stru[Now].whole
    /\ pc = "setup" => (md_restart <=> rst.lines # Off)
    /\ clean /\ rst.lines # Off /\ pc \notin {"killed", "quit"} =>
           /\ pc # "rst_write" => Complete
           /\ ~BetweenFiles => stru[rst.step].whole

\* The values the integrator and the files have
ValuesInv ==
    clean /\ Repeatable =>
        /\ rst.lines # Off => OnTrack(rst.q, rst.step)
        /\ \A n \in 0 .. Nstep : stru[n].whole => stru[n].pos = n /\ stru[n].vel = n
        /\ pc = "setup" => q = IF md_restart
                               THEN Constructed(rst.step, rst.step, TRUE)
                               ELSE Constructed(0, 0, FALSE)
        /\ ContinuesRun

\* Restart files are of every restartfreq-th step.
WorkInv ==
    /\ rst.lines # Off => rst.step % inp.restartfreq = 0
    /\ pc \in {"stru", "stru_write", "rst", "rst_write"} => Now % inp.restartfreq = 0
    /\ rst.lines = Off /\ pc \notin {"killed", "quit"} =>
           Now = 0 /\ pc \in {"setup", "dump", "dump_write", "stru", "stru_write", "rst"}
    /\ clean /\ Complete /\ pc # "quit" =>
           /\ Now - rst.step <= inp.restartfreq
           /\ pc = "next" => Now - rst.step < inp.restartfreq

IInv == ControlInv /\ FilesInv /\ PairInv /\ ValuesInv /\ WorkInv

-----------------------------------------------------------------------------
(* Settings, files and quantities of the kinds *)

LEMMA InputFacts ==
    ASSUME inp \in Inputs
    PROVE  /\ inp.kind \in Kinds
           /\ inp.restartfreq \in Nat \ {0} /\ inp.dumpfreq \in Nat \ {0}
           /\ Nstep \in Nat \ {0} /\ 0 \in Val /\ Off \in Val /\ Val \subseteq Int
           /\ 0 .. Nstep \subseteq Val
  BY InputsAssumption, NstepAssumption DEF Settings, Val, Off

\* Every Restart_md.dat begins with the step.
LEMMA LinesOfKinds ==
    ASSUME NEW kind \in Kinds
    PROVE  /\ Len(Lines(kind)) \in Nat /\ Len(Lines(kind)) >= 2
           /\ Lines(kind)[1] = "step"
           /\ \A i \in 2 .. Len(Lines(kind)) : Lines(kind)[i] # "step"
  BY DEF Lines, Kinds

LEMMA ReadStep ==
    ASSUME inp \in Inputs, rst \in Restarts
    PROVE  /\ MdStep = (IF rst.lines >= 1 THEN rst.step ELSE 0)
           /\ MdStep \in 0 .. Nstep
           /\ Complete => MdStep = rst.step
  <1>1. inp.kind \in Kinds /\ Nstep \in Nat
    BY InputFacts
  <1>2. rst.lines \in Int /\ rst.lines <= Len(Lines(inp.kind)) /\ rst.step \in 0 .. Nstep
    BY <1>1, LinesOfKinds DEF Restarts, Off
  <1>3. "step" \in Read <=> rst.lines >= 1
    BY <1>1, <1>2, LinesOfKinds DEF Read
  <1>. QED BY <1>1, <1>2, <1>3, LinesOfKinds DEF MdStep, Complete

\* A complete Restart_md.dat has what neither the structure has nor setup
\* computes.
LEMMA CompleteReads ==
    ASSUME inp.kind \in Kinds, Complete
    PROVE  /\ inp.kind = "verlet" => "md_tfirst" \in Read
           /\ inp.kind = "fire" =>
                  {"alpha", "negative_count", "dt_max", "md_dt"} \subseteq Read
           /\ inp.kind = "nhc" => {"md_tfirst", "eta", "v_eta"} \subseteq Read
           /\ inp.kind = "npt" =>
                  {"md_tfirst", "eta", "v_eta", "v_omega", "peta", "v_peta"} \subseteq Read
           /\ inp.kind = "msst" => {"omega", "e0", "v0", "p0", "lag_pos"} \subseteq Read
  <1>1. ASSUME inp.kind = "verlet" PROVE "md_tfirst" \in Read
    <2>1. Lines(inp.kind) = <<"step", "md_tfirst">>
      BY <1>1 DEF Lines
    <2>. QED BY <2>1 DEF Complete, Read
  <1>2. ASSUME inp.kind = "fire"
        PROVE {"alpha", "negative_count", "dt_max", "md_dt"} \subseteq Read
    <2>1. Lines(inp.kind) =
            <<"step", "md_tfirst", "alpha", "negative_count", "dt_max", "md_dt">>
      BY <1>2 DEF Lines
    <2>. QED BY <2>1 DEF Complete, Read
  <1>3. ASSUME inp.kind = "nhc" PROVE {"md_tfirst", "eta", "v_eta"} \subseteq Read
    <2>1. Lines(inp.kind) = <<"step", "md_tfirst", "md_tchain", "eta", "v_eta">>
      BY <1>3 DEF Lines
    <2>. QED BY <2>1 DEF Complete, Read
  <1>4. ASSUME inp.kind = "npt"
        PROVE {"md_tfirst", "eta", "v_eta", "v_omega", "peta", "v_peta"} \subseteq Read
    <2>1. Lines(inp.kind) = <<"step", "md_tfirst", "md_tchain", "eta", "v_eta",
                              "v_omega", "md_pchain", "peta", "v_peta">>
      BY <1>4 DEF Lines
    <2>. QED BY <2>1 DEF Complete, Read
  <1>5. ASSUME inp.kind = "msst" PROVE {"omega", "e0", "v0", "p0", "lag_pos"} \subseteq Read
    <2>1. Lines(inp.kind) = <<"step", "md_tfirst", "omega", "e0", "v0", "p0", "lag_pos">>
      BY <1>5 DEF Lines
    <2>. QED BY <2>1 DEF Complete, Read
  <1>. QED BY <1>1, <1>2, <1>3, <1>4, <1>5

LEMMA ConstructedType ==
    ASSUME inp \in Inputs, NEW pos \in Val, NEW vel \in Val, NEW restart \in BOOLEAN
    PROVE  Constructed(pos, vel, restart) \in [Carried(inp.kind) -> Val]
  BY InputFacts DEF Constructed

LEMMA SetUpType ==
    ASSUME inp \in Inputs, NEW n \in 0 .. Nstep, NEW r \in [Carried(inp.kind) -> Val]
    PROVE  SetUp(r, n) \in [Carried(inp.kind) -> Val]
  <1>1. TargetTemp(n) \in Val /\ TargetTemp(0) \in Val
    BY InputFacts DEF TargetTemp
  <1>2. {"pos", "vel"} \subseteq Carried(inp.kind)
    BY DEF Carried, Phase
  <1>3. "g_eta" \in Carried(inp.kind) => "v_eta" \in Carried(inp.kind)
    BY InputFacts DEF Carried, Phase, Thermostat, Barostat, Kinds
  <1>4. "g_peta" \in Carried(inp.kind) => "v_peta" \in Carried(inp.kind)
    BY InputFacts DEF Carried, Phase, Thermostat, Barostat, Kinds
  <1>. QED BY <1>1, <1>2, <1>3, <1>4, InputFacts DEF SetUp

LEMMA IntegratedType ==
    ASSUME inp \in Inputs, NEW n \in 0 .. Nstep, q \in [Carried(inp.kind) -> Val]
    PROVE  Integrated(n) \in [Carried(inp.kind) -> Val]
  <1>1. TargetTemp(n) \in Val
    BY InputFacts DEF TargetTemp
  <1>2. \A x : Ref(x, n) \in Val
    BY <1>1, InputFacts DEF Ref
  <1>. QED BY <1>1, <1>2, InputFacts DEF Integrated

LEMMA Stops ==
    ASSUME NEW force
    PROVE  Stopping(force) \subseteq BOOLEAN
  BY DEF Stopping

LEMMA PlacesAfter ==
    ASSUME NEW n
    PROVE  AfterDump(n) \in {"stru", "next"} /\ AfterStep(n) \in {"dump", "stru", "next"}
  BY DEF AfterDump, AfterStep

-----------------------------------------------------------------------------
(* The values of a quantity *)

\* What r has of step n when setup begins
BeforeSetUp(r, n) ==
    /\ r["pos"] = n /\ r["vel"] = n
    /\ "md_tfirst" \in DOMAIN r => r["md_tfirst"] = 0
    /\ \A x \in {"alpha", "negative_count", "dt_max", "md_dt", "kinetic", "eta", "v_eta",
                 "v_omega", "peta", "v_peta"} : x \in DOMAIN r => r[x] = n
    /\ md_restart => /\ \A x \in {"omega", "lag_pos"} : x \in DOMAIN r => r[x] = n
                     /\ \A x \in {"e0", "v0", "p0"} : x \in DOMAIN r => r[x] = 0
    /\ ~md_restart => n = 0

\* With these setup computes the others.
LEMMA SetUpOnTrack ==
    ASSUME inp \in Inputs, Repeatable, NEW n \in 0 .. Nstep,
           NEW r \in [Carried(inp.kind) -> Val], BeforeSetUp(r, n)
    PROVE  OnTrack(SetUp(r, n), n)
  <1>. DEFINE Target == IF r["md_tfirst"] = 0 THEN TargetTemp(n) ELSE Off
  <1>1. /\ inp.kind \in Kinds \ {"langevin"}
        /\ inp.kind = "npt" => Tlast = "T0"
    BY InputFacts DEF Repeatable
  <1>2. DOMAIN SetUp(r, n) = Carried(inp.kind) /\ DOMAIN r = Carried(inp.kind)
    BY DEF SetUp
  <1>3. SUFFICES ASSUME NEW x \in Carried(inp.kind) PROVE SetUp(r, n)[x] = Ref(x, n)
    BY <1>2 DEF OnTrack
  <1>4. CASE x \in {"force", "stress", "pos", "vel", "alpha", "negative_count", "dt_max",
                    "md_dt", "kinetic", "eta", "v_eta", "v_omega", "peta", "v_peta"}
    <2>1. Ref(x, n) = n
      BY <1>4 DEF Ref, Fixed
    <2>2. CASE x \in {"force", "stress"}
      BY <1>2, <2>1, <2>2 DEF SetUp, BeforeSetUp
    <2>3. CASE x \notin {"force", "stress"}
      <3>1. SetUp(r, n)[x] = r[x]
        BY <1>2, <1>4, <2>3 DEF SetUp
      <3>2. CASE x \in {"pos", "vel"}
        BY <2>1, <3>1, <3>2 DEF BeforeSetUp
      <3>3. CASE x \in {"alpha", "negative_count", "dt_max", "md_dt", "kinetic", "eta",
                        "v_eta", "v_omega", "peta", "v_peta"}
        <4>1. r[x] = n
          BY <1>2, <3>3 DEF BeforeSetUp
        <4>. QED BY <2>1, <3>1, <4>1
      <3>. QED BY <1>4, <2>3, <3>2, <3>3
    <2>. QED BY <2>2, <2>3
  <1>5. CASE x = "md_tfirst"
    BY <1>2, <1>5 DEF SetUp, Ref, Fixed, BeforeSetUp
  <1>6. CASE x \in {"t_target", "g_eta", "g_peta", "mass"}
    <2>1. inp.kind \in {"nhc", "npt"} /\ "md_tfirst" \in Carried(inp.kind)
      BY <1>1, <1>6 DEF Carried, Phase, Thermostat, Barostat, Kinds
    <2>2. Target = TargetTemp(n) /\ TargetTemp(n) # Off /\ n \in Nat
      BY <1>2, <2>1, InputFacts DEF BeforeSetUp, TargetTemp, Off
    <2>3. CASE x = "t_target"
      BY <1>2, <2>2, <2>3 DEF SetUp, Ref, Fixed
    <2>4. CASE x = "g_eta"
      <3>1. "v_eta" \in Carried(inp.kind)
        BY <2>1 DEF Carried, Thermostat
      <3>. QED BY <1>2, <2>2, <2>4, <3>1 DEF SetUp, Ref, Fixed, BeforeSetUp
    <2>5. CASE x \in {"g_peta", "mass"}
      <3>1. inp.kind = "npt"
        BY <2>1, <2>5 DEF Carried, Phase, Thermostat
      <3>2. TargetTemp(n) = 0 /\ TargetTemp(0) = 0 /\ "v_peta" \in Carried(inp.kind)
        BY <1>1, <3>1 DEF TargetTemp, Carried, Barostat
      <3>. QED BY <1>2, <2>2, <2>5, <3>2 DEF SetUp, Ref, Fixed, BeforeSetUp
    <2>. QED BY <1>6, <2>3, <2>4, <2>5
  <1>7. CASE x \in {"omega", "lag_pos", "e0", "v0", "p0"}
    BY <1>2, <1>7 DEF SetUp, Ref, Fixed, BeforeSetUp
  <1>8. x \in {"force", "stress", "pos", "vel", "alpha", "negative_count", "dt_max",
               "md_dt", "kinetic", "eta", "v_eta", "v_omega", "peta", "v_peta",
               "md_tfirst", "t_target", "g_eta", "g_peta", "mass",
               "omega", "lag_pos", "e0", "v0", "p0"}
    BY <1>1 DEF Carried, Phase, Thermostat, Barostat, Kinds
  <1>. QED BY <1>4, <1>5, <1>6, <1>7, <1>8

\* The first launch begins with the structure of INPUT.
LEMMA FirstBegin ==
    ASSUME inp \in Inputs, ~md_restart, q = Constructed(0, 0, FALSE)
    PROVE  Restored \in [Carried(inp.kind) -> Val] /\ BeforeSetUp(Restored, 0)
  <1>1. q \in [Carried(inp.kind) -> Val]
    BY ConstructedType, InputFacts
  <1>2. Restored = q
    BY <1>1 DEF Restored
  <1>. QED BY <1>1, <1>2 DEF BeforeSetUp, Constructed, Carried, Phase

\* A later one with the structure and the Restart_md.dat of step n.
LEMMA RestartBegin ==
    ASSUME inp \in Inputs, Repeatable, rst \in Restarts, md_restart, Complete,
           NEW n \in 0 .. Nstep, q = Constructed(n, n, TRUE), OnTrack(rst.q, n)
    PROVE  Restored \in [Carried(inp.kind) -> Val] /\ BeforeSetUp(Restored, n)
  <1>1. q \in [Carried(inp.kind) -> Val] /\ rst.q \in [Carried(inp.kind) -> Val]
    BY ConstructedType, InputFacts DEF Restarts
  <1>2. /\ Restored \in [Carried(inp.kind) -> Val]
        /\ \A x \in Carried(inp.kind) : Restored[x] = IF x \in Read THEN rst.q[x] ELSE q[x]
    BY <1>1 DEF Restored
  <1>3. \A x \in Carried(inp.kind) : rst.q[x] = Ref(x, n)
    BY <1>1 DEF OnTrack
  <1>4. inp.kind \in Kinds \ {"langevin"}
    BY InputFacts DEF Repeatable
  <1>5. {"pos", "vel"} \subseteq Carried(inp.kind)
    BY DEF Carried, Phase
  <1>6. q["pos"] = n /\ q["vel"] = n
    BY <1>5 DEF Constructed
  <1>7. \A x \in {"pos", "vel", "kinetic"} : x \in Carried(inp.kind) => q[x] = n
    BY DEF Constructed
  <1>8. \A x \in {"pos", "vel", "kinetic"} : x \in Carried(inp.kind) => Restored[x] = n
    BY <1>2, <1>3, <1>7 DEF Ref, Fixed
  <1>9. \A x \in {"alpha", "negative_count", "dt_max", "md_dt", "eta", "v_eta",
                  "v_omega", "peta", "v_peta", "omega", "lag_pos"} :
            x \in Carried(inp.kind) => Restored[x] = n
    <2>1. \A x \in {"alpha", "negative_count", "dt_max", "md_dt", "eta", "v_eta",
                    "v_omega", "peta", "v_peta", "omega", "lag_pos"} :
            x \in Carried(inp.kind) => x \in Read
      BY <1>4, CompleteReads DEF Carried, Phase, Thermostat, Barostat, Kinds
    <2>. QED BY <1>2, <1>3, <2>1 DEF Ref, Fixed
  <1>10. \A x \in {"md_tfirst", "e0", "v0", "p0"} :
            x \in Carried(inp.kind) => Restored[x] = 0
    <2>1. \A x \in {"md_tfirst", "e0", "v0", "p0"} : x \in Carried(inp.kind) => x \in Read
      BY <1>4, CompleteReads DEF Carried, Phase, Thermostat, Barostat, Kinds
    <2>. QED BY <1>2, <1>3, <2>1 DEF Ref, Fixed
  <1>11. DOMAIN Restored = Carried(inp.kind)
    BY <1>2
  <1>. QED BY <1>2, <1>5, <1>8, <1>9, <1>10, <1>11 DEF BeforeSetUp

-----------------------------------------------------------------------------
(* The invariant is kept *)

LEMMA InitKept == Init => IInv
  <1>. SUFFICES ASSUME Init PROVE IInv
    OBVIOUS
  <1>. USE DEF Init
  <1>1. inp.kind \in Kinds /\ Nstep \in Nat /\ 0 \in Val /\ Off \in Val
    BY InputFacts
  <1>2. Now = 0
    BY DEF Now
  <1>3. ControlInv
    <2>1. q \in [Carried(inp.kind) -> Val]
      BY <1>1, ConstructedType
    <2>2. /\ inp \in Inputs /\ pc = "setup" /\ md_restart = FALSE /\ stop = FALSE
          /\ clean = TRUE /\ step_ = 0 /\ step_rst_ = 0 /\ launches = 0
      OBVIOUS
    <2>. HIDE DEF Init
    <2>3. /\ 0 \in Nat /\ 0 \in 0 .. Nstep /\ 0 \in 0 .. MaxLaunches
          /\ Now <= Nstep + 1 /\ Now <= Nstep
      BY <1>1, <1>2, MaxLaunchesAssumption
    <2>. QED BY <2>1, <2>2, <2>3, Zenon DEF ControlInv, Working
  <1>4. rst \in Restarts
    BY <1>1, LinesOfKinds DEF NoRestart, Restarts, Off
  <1>5. FilesInv
    BY <1>1, <1>4 DEF FilesInv, NoStru, Structures
  <1>6. rst.lines = Off /\ \A n \in 0 .. Nstep : ~stru[n].whole
    BY DEF NoRestart, NoStru
  <1>7. PairInv
    BY <1>6 DEF PairInv
  <1>8. ValuesInv
    BY <1>6 DEF ValuesInv, ContinuesRun
  <1>9. ~Complete
    BY <1>1, <1>6, LinesOfKinds DEF Complete, Off
  <1>10. WorkInv
    BY <1>2, <1>6, <1>9 DEF WorkInv
  <1>. QED BY <1>3, <1>5, <1>7, <1>8, <1>10 DEF IInv

LEMMA ControlKept == IInv /\ Next => ControlInv'
  <1>. SUFFICES ASSUME ControlInv, FilesInv, Next PROVE ControlInv'
    BY DEF IInv
  <1>1. inp' = inp /\ inp \in Inputs /\ Nstep \in Nat
    BY InputFacts DEF ControlInv, Next, Launch, Kill, Setup, SetupQuits, Step, Writes,
       OpenDump, WriteDump, OpenStru, WriteStru, OpenRestart, WriteLine, NextStep
  <1>2. CASE Launch
    <2>1. CASE UNCHANGED memVars /\ UNCHANGED clean /\ pc' = "quit"
      BY <1>1, <1>2, <2>1, MaxLaunchesAssumption
         DEF ControlInv, Launch, memVars, Now, Working
    <2>2. CASE ~(rst.lines = Off \/ ~stru[MdStep].whole)
      <3>1. MdStep \in 0 .. Nstep
        BY <1>1, ReadStep DEF FilesInv
      <3>2. stru[MdStep].pos \in Val /\ stru[MdStep].vel \in Val
        BY <3>1 DEF FilesInv, Structures
      <3>3. q' \in [Carried(inp.kind) -> Val]
        BY <1>1, <1>2, <2>2, <3>2, ConstructedType DEF Launch
      <3>4. clean' \in BOOLEAN
        BY <1>2, <2>2 DEF Launch
      <3>5. pc' = "setup" /\ step_' = 0 /\ step_rst_' = 0
        BY <1>2, <2>2 DEF Launch
      <3>7. md_restart' \in BOOLEAN /\ stop' \in BOOLEAN
        BY <1>2, <2>2 DEF Launch
      <3>6. launches' \in 0 .. MaxLaunches
        BY <1>2, MaxLaunchesAssumption DEF ControlInv, Launch
      <3>. QED BY <1>1, <3>3, <3>4, <3>5, <3>6, <3>7 DEF ControlInv, Now, Working
    <2>. QED BY <1>2, <2>1, <2>2 DEF Launch
  <1>3. CASE Kill
    BY <1>1, <1>3 DEF ControlInv, Kill, memVars, Now, Working
  <1>4. CASE Setup \/ SetupQuits
    <2>1. step_rst_' \in 0 .. Nstep /\ step_' = 0
      BY <1>1, <1>4, ReadStep DEF ControlInv, FilesInv, Setup, SetupQuits
    <2>2. CASE Setup
      <3>1. rst.q \in [Carried(inp.kind) -> Val]
        BY DEF FilesInv, Restarts
      <3>2. Restored \in [Carried(inp.kind) -> Val]
        BY <3>1 DEF Restored, ControlInv
      <3>3. q' \in [Carried(inp.kind) -> Val]
        BY <1>1, <2>1, <2>2, <3>2, SetUpType DEF Setup
      <3>4. stop' \in BOOLEAN
        BY <2>2, Stops DEF Setup
      <3>5. pc' \in Working
        BY <2>2, PlacesAfter DEF Setup, Working
      <3>. QED BY <1>1, <2>1, <2>2, <3>3, <3>4, <3>5 DEF ControlInv, Setup, Now, Working
    <2>3. CASE SetupQuits
      BY <1>1, <2>1, <2>3 DEF ControlInv, SetupQuits, Now, Working
    <2>. QED BY <1>4, <2>2, <2>3
  <1>5. CASE Step
    <2>1. Now \in 0 .. Nstep
      BY <1>1, <1>5 DEF ControlInv, Step, Now, Working
    <2>2. q' \in [Carried(inp.kind) -> Val]
      BY <1>1, <1>5, <2>1, IntegratedType DEF ControlInv, Step
    <2>3. stop' \in BOOLEAN
      BY <1>5, Stops DEF Step
    <2>4. pc' \in Working \ {"setup"}
      BY <1>5, PlacesAfter DEF Step, Working
    <2>. QED BY <1>1, <1>5, <2>1, <2>2, <2>3, <2>4 DEF ControlInv, Step, Now, Working
  <1>6. CASE OpenDump \/ WriteDump \/ OpenStru \/ WriteStru \/ OpenRestart \/ WriteLine
    <2>1. pc \in Working /\ pc' \in Working /\ UNCHANGED <<inp, memVars, launches, clean>>
      BY <1>6, PlacesAfter DEF OpenDump, WriteDump, OpenStru, WriteStru, OpenRestart,
         WriteLine, Writes, Working
    <2>. QED BY <1>1, <2>1 DEF ControlInv, memVars, Now, Working
  <1>7. CASE NextStep
    <2>1. Now' = Now + 1
      BY <1>7 DEF NextStep, Now, ControlInv
    <2>. QED BY <1>1, <1>7, <2>1 DEF ControlInv, NextStep, Now, Working
  <1>. QED BY <1>2, <1>3, <1>4, <1>5, <1>6, <1>7 DEF Next

LEMMA FilesKept == IInv /\ Next => FilesInv'
  <1>. SUFFICES ASSUME ControlInv, FilesInv, Next PROVE FilesInv'
    BY DEF IInv
  <1>1. inp' = inp /\ inp \in Inputs /\ Nstep \in Nat /\ Off \in Val
    BY InputFacts DEF ControlInv, Next, Launch, Kill, Setup, SetupQuits, Step, Writes,
       OpenDump, WriteDump, OpenStru, WriteStru, OpenRestart, WriteLine, NextStep
  <1>2. pc \in Working => Now \in 0 .. Nstep /\ q["pos"] \in Val /\ q["vel"] \in Val
    <2>1. {"pos", "vel"} \subseteq Carried(inp.kind)
      BY DEF Carried, Phase
    <2>. QED BY <2>1 DEF ControlInv, Now
  <1>3. CASE Launch \/ Kill \/ Setup \/ SetupQuits \/ Step \/ NextStep
    <2>1. UNCHANGED fileVars /\ pc' \notin {"dump_write", "rst_write"}
      BY <1>3, PlacesAfter DEF Launch, Kill, Setup, SetupQuits, Step, NextStep
    <2>. QED BY <1>1, <2>1 DEF FilesInv, fileVars, Restarts
  <1>4. CASE OpenDump
    <2>1. [step |-> Now, pos |-> q["pos"], whole |-> FALSE] \in Frames
      BY <1>2, <1>4 DEF OpenDump, Writes, Working, Frames
    <2>2. dump' \in Seq(Frames) /\ dump' # <<>>
      <3>1. (IF Now = 0 THEN <<>> ELSE dump) \in Seq(Frames)
        BY DEF FilesInv
      <3>. QED BY <1>4, <2>1, <3>1, AppendProperties DEF OpenDump
    <2>3. pc' = "dump_write" /\ stru' = stru /\ rst' = rst
      BY <1>4 DEF OpenDump, Writes
    <2>4. UNCHANGED <<Frames, Structures, Restarts>>
      BY <1>1 DEF Frames, Structures, Restarts
    <2>. QED BY <2>2, <2>3, <2>4 DEF FilesInv
  <1>5. CASE WriteDump
    <2>1. dump \in Seq(Frames) /\ Len(dump) \in 1 .. Len(dump)
      BY <1>5 DEF FilesInv, WriteDump, Writes
    <2>2. [dump[Len(dump)] EXCEPT !.whole = TRUE] \in Frames
      <3>1. dump[Len(dump)] \in Frames
        BY <2>1
      <3>. QED BY <3>1 DEF Frames
    <2>3. dump' \in Seq(Frames)
      BY <1>5, <2>1, <2>2 DEF WriteDump
    <2>4. pc' \in {"stru", "next"}
      BY <1>5, PlacesAfter DEF WriteDump, Writes
    <2>. QED BY <1>1, <1>5, <2>3, <2>4 DEF FilesInv, WriteDump, Writes, Restarts
  <1>6. CASE OpenStru
    BY <1>1, <1>6 DEF FilesInv, OpenStru, Writes, Restarts, Structures, NoStru
  <1>7. CASE WriteStru
    <2>1. [whole |-> TRUE, pos |-> q["pos"], vel |-> q["vel"]] \in Structures
      BY <1>2, <1>7 DEF WriteStru, Writes, Working, Structures
    <2>. QED BY <1>1, <1>7, <2>1 DEF FilesInv, WriteStru, Writes, Restarts
  <1>8. CASE OpenRestart
    <2>1. Now \in 0 .. Nstep /\ Now' = Now
      BY <1>2, <1>8 DEF OpenRestart, Writes, Working, memVars, Now
    <2>2. Len(Lines(inp.kind)) \in Nat /\ Len(Lines(inp.kind)) >= 2
      BY <1>1, InputFacts, LinesOfKinds
    <2>. QED BY <1>1, <1>8, <2>1, <2>2
             DEF FilesInv, ControlInv, OpenRestart, Writes, Restarts, Off
  <1>9. CASE WriteLine
    <2>1. Now' = Now
      BY <1>9 DEF WriteLine, Writes, memVars, Now
    <2>2. Len(Lines(inp.kind)) \in Nat /\ Len(Lines(inp.kind)) >= 2
      BY <1>1, InputFacts, LinesOfKinds
    <2>3. rst.lines \in 0 .. Len(Lines(inp.kind)) - 1 /\ rst.step = Now
      BY <1>9 DEF WriteLine, Writes, FilesInv
    <2>4. rst' = [rst EXCEPT !.lines = @ + 1] /\ rst \in Restarts
      BY <1>9 DEF WriteLine, FilesInv
    <2>5. rst'.lines = rst.lines + 1 /\ rst'.step = rst.step
      BY <2>4 DEF Restarts
    <2>6. rst.lines + 1 \in Off .. Len(Lines(inp.kind))
      BY <2>2, <2>3 DEF Off
    <2>7. rst' \in Restarts
      BY <2>4, <2>6 DEF Restarts
    <2>8. pc' = "rst_write" => rst.lines + 1 # Len(Lines(inp.kind))
      BY <1>9 DEF WriteLine, Writes
    <2>9. pc' # "dump_write" /\ UNCHANGED <<dump, stru>>
      BY <1>9 DEF WriteLine, Writes
    <2>. QED BY <1>1, <2>1, <2>2, <2>3, <2>5, <2>7, <2>8, <2>9 DEF FilesInv, Restarts
  <1>. QED BY <1>3, <1>4, <1>5, <1>6, <1>7, <1>8, <1>9 DEF Next

\* No action changes the settings, and only three kinds of them the files.
LEMMA SettingsKept ==
    ASSUME ControlInv, Next
    PROVE  /\ inp' = inp /\ inp \in Inputs
           /\ Len(Lines(inp.kind)) \in Nat /\ Len(Lines(inp.kind)) >= 2
           /\ pc \in Working => Now \in 0 .. Nstep
  <1>1. inp' = inp /\ inp \in Inputs
    BY DEF ControlInv, Next, Launch, Kill, Setup, SetupQuits, Step, Writes,
       OpenDump, WriteDump, OpenStru, WriteStru, OpenRestart, WriteLine, NextStep
  <1>. QED BY <1>1, InputFacts, LinesOfKinds DEF ControlInv, Now

LEMMA PairKept == IInv /\ Next => PairInv'
  <1>. SUFFICES ASSUME ControlInv, FilesInv, PairInv, Next PROVE PairInv'
    BY DEF IInv
  <1>. USE SettingsKept
  <1>1. CASE Launch
    <2>1. CASE pc' = "quit"
      BY <2>1 DEF PairInv
    <2>2. CASE ~(rst.lines = Off \/ ~stru[MdStep].whole)
      <3>1. /\ pc' = "setup" /\ md_restart' /\ UNCHANGED <<stru, rst>>
            /\ clean' => clean /\ Complete
        BY <1>1, <2>2 DEF Launch, fileVars
      <3>2. clean' => Complete' /\ stru'[rst'.step].whole
        BY <2>2, <3>1, ReadStep DEF Complete, FilesInv
      <3>. QED BY <2>2, <3>1, <3>2 DEF PairInv
    <2>. QED BY <1>1, <2>1, <2>2 DEF Launch
  <1>2. CASE Kill \/ SetupQuits
    BY <1>2 DEF PairInv, Kill, SetupQuits
  <1>3. CASE Setup \/ Step \/ OpenDump \/ WriteDump \/ NextStep
    <2>1. /\ pc \in {"setup", "step", "dump", "dump_write", "next"}
          /\ pc' \in {"step", "dump", "dump_write", "stru", "next", "done"}
          /\ UNCHANGED <<stru, rst, clean>>
      BY <1>3, PlacesAfter DEF Setup, Step, OpenDump, WriteDump, NextStep, Writes, fileVars
    <2>. QED BY <2>1 DEF PairInv, BetweenFiles, Complete
  <1>4. CASE OpenStru
    <2>1. /\ pc = "stru" /\ pc' = "stru_write" /\ UNCHANGED <<rst, clean, step_, step_rst_>>
          /\ stru' = [stru EXCEPT ![Now] = NoStru] /\ Now' = Now
      BY <1>4 DEF OpenStru, Writes, memVars, Now
    <2>2. rst.step # Now => stru'[rst.step] = stru[rst.step]
      BY <2>1 DEF FilesInv, Restarts
    <2>. QED BY <2>1, <2>2 DEF PairInv, BetweenFiles, Complete
  <1>5. CASE WriteStru
    <2>1. /\ pc = "stru_write" /\ pc' = "rst" /\ UNCHANGED <<rst, clean>> /\ Now' = Now
          /\ stru' = [stru EXCEPT ![Now] =
                        [whole |-> TRUE, pos |-> q["pos"], vel |-> q["vel"]]]
      BY <1>5 DEF WriteStru, Writes, memVars, Now
    <2>2. stru'[Now].whole
      BY <2>1 DEF FilesInv, Working
    <2>3. rst.step # Now => stru'[rst.step] = stru[rst.step]
      BY <2>1 DEF FilesInv, Restarts
    <2>. QED BY <2>1, <2>2, <2>3 DEF PairInv, BetweenFiles, Complete
  <1>6. CASE OpenRestart
    <2>1. pc = "rst" /\ pc' = "rst_write" /\ UNCHANGED <<stru, clean>> /\ Now' = Now
      BY <1>6 DEF OpenRestart, Writes, memVars, Now
    <2>. QED BY <2>1 DEF PairInv, BetweenFiles
  <1>7. CASE WriteLine
    <2>1. /\ pc = "rst_write" /\ UNCHANGED <<stru, clean>> /\ Now' = Now
          /\ rst'.lines = rst.lines + 1 /\ rst'.step = rst.step
          /\ \/ pc' = "rst_write"
             \/ pc' = "next" /\ rst.lines + 1 = Len(Lines(inp.kind))
      BY <1>7 DEF WriteLine, Writes, memVars, Now, FilesInv, Restarts
    <2>2. rst.step = Now /\ stru[Now].whole
      BY <2>1 DEF FilesInv, PairInv
    <2>. QED BY <2>1, <2>2 DEF PairInv, BetweenFiles, Complete
  <1>. QED BY <1>1, <1>2, <1>3, <1>4, <1>5, <1>6, <1>7 DEF Next

LEMMA ValuesKept == IInv /\ Next => ValuesInv'
  <1>. SUFFICES ASSUME ControlInv, FilesInv, PairInv, ValuesInv, Next,
                       clean', Repeatable'
                PROVE  ValuesInv'
    BY DEF IInv, ValuesInv
  <1>1. inp' = inp /\ inp \in Inputs /\ Repeatable
    BY SettingsKept DEF Repeatable, Tlast
  <1>2. clean
    BY DEF Next, Launch, Kill, Setup, SetupQuits, Step, Writes, OpenDump, WriteDump,
       OpenStru, WriteStru, OpenRestart, WriteLine, NextStep
  <1>3. /\ rst.lines # Off => OnTrack(rst.q, rst.step)
        /\ \A n \in 0 .. Nstep : stru[n].whole => stru[n].pos = n /\ stru[n].vel = n
        /\ pc = "setup" => q = IF md_restart
                               THEN Constructed(rst.step, rst.step, TRUE)
                               ELSE Constructed(0, 0, FALSE)
        /\ ContinuesRun
    BY <1>1, <1>2 DEF ValuesInv
  <1>4. SUFFICES /\ rst'.lines # Off => OnTrack(rst'.q, rst'.step)
                 /\ \A n \in 0 .. Nstep :
                        stru'[n].whole => stru'[n].pos = n /\ stru'[n].vel = n
                 /\ pc' = "setup" => q' = IF md_restart'
                                          THEN Constructed(rst'.step, rst'.step, TRUE)
                                          ELSE Constructed(0, 0, FALSE)
                 /\ pc' \notin {"setup", "killed", "quit", "done"} =>
                        OnTrack(q', IF pc' = "step" THEN Now' - 1 ELSE Now')
    <2>1. (\A f, n : OnTrack(f, n) <=> OnTrack(f, n)')
      BY <1>1 DEF OnTrack, Ref, TargetTemp, Tlast
    <2>. QED BY <1>1, <2>1 DEF ValuesInv, ContinuesRun, Constructed, OnTrack, Ref, TargetTemp, Tlast
  <1>5. ASSUME UNCHANGED <<rst, stru>>
        PROVE  /\ rst'.lines # Off => OnTrack(rst'.q, rst'.step)
               /\ \A n \in 0 .. Nstep :
                      stru'[n].whole => stru'[n].pos = n /\ stru'[n].vel = n
    BY <1>3, <1>5
  <1>6. CASE Launch
    <2>1. CASE pc' = "quit"
      BY <1>5, <1>6, <2>1 DEF Launch, fileVars
    <2>2. CASE ~(rst.lines = Off \/ ~stru[MdStep].whole)
      <3>1. /\ pc' = "setup" /\ md_restart' /\ UNCHANGED <<stru, rst>> /\ Complete
            /\ q' = Constructed(stru[MdStep].pos, stru[MdStep].vel, TRUE)
        BY <1>6, <2>2 DEF Launch, fileVars
      <3>2. MdStep = rst.step /\ rst.step \in 0 .. Nstep
        BY <1>1, <3>1, ReadStep DEF FilesInv
      <3>3. q' = Constructed(rst.step, rst.step, TRUE)
        BY <1>3, <2>2, <3>1, <3>2
      <3>. QED BY <1>5, <3>1, <3>3
    <2>. QED BY <1>6, <2>1, <2>2 DEF Launch
  <1>7. CASE Kill \/ SetupQuits
    BY <1>5, <1>7 DEF Kill, SetupQuits, fileVars
  <1>8. CASE Setup
    <2>1. /\ pc = "setup" /\ pc' \in {"dump", "stru", "next"} /\ UNCHANGED <<rst, stru>>
          /\ step_rst_' = IF md_restart THEN MdStep ELSE 0
          /\ q' = SetUp(Restored, step_rst_') /\ step_' = 0
      BY <1>8, PlacesAfter DEF Setup, fileVars, ControlInv
    <2>2. Nstep \in Nat /\ 0 \in 0 .. Nstep
      BY NstepAssumption
    <2>3. step_rst_' \in 0 .. Nstep
      BY <1>1, <2>1, <2>2, ReadStep DEF FilesInv
    <2>4. Restored \in [Carried(inp.kind) -> Val] /\ BeforeSetUp(Restored, step_rst_')
      <3>1. CASE ~md_restart
        BY <1>1, <1>3, <2>1, <3>1, FirstBegin
      <3>2. CASE md_restart
        <4>1. rst.lines # Off /\ Complete
          BY <1>2, <2>1, <3>2 DEF PairInv
        <4>2. step_rst_' = rst.step /\ rst.step \in 0 .. Nstep
          BY <1>1, <2>1, <3>2, <4>1, ReadStep DEF FilesInv
        <4>. QED BY <1>1, <1>3, <2>1, <3>2, <4>1, <4>2, RestartBegin DEF FilesInv
      <3>. QED BY <3>1, <3>2
    <2>5. Now' = step_rst_'
      BY <2>1, <2>3 DEF Now
    <2>6. OnTrack(q', Now')
      BY <1>1, <2>1, <2>3, <2>4, <2>5, SetUpOnTrack
    <2>. QED BY <1>5, <2>1, <2>6
  <1>9. CASE Step
    <2>1. /\ pc = "step" /\ pc' \in {"dump", "stru", "next"} /\ UNCHANGED <<rst, stru>>
          /\ q' = Integrated(Now) /\ Now' = Now
      BY <1>9, PlacesAfter DEF Step, fileVars, Now
    <2>2. q' = [x \in DOMAIN q |-> Ref(x, Now)]
      BY <1>1, <1>2, <1>3, <2>1 DEF ContinuesRun, Integrated
    <2>3. OnTrack(q', Now')
      BY <2>1, <2>2 DEF OnTrack
    <2>. QED BY <1>5, <2>1, <2>3
  <1>10. CASE NextStep
    <2>1. /\ pc = "next" /\ pc' \in {"step", "done"} /\ UNCHANGED <<rst, stru, q>>
          /\ Now' = Now + 1 /\ Now \in Int
      BY <1>10 DEF NextStep, fileVars, ControlInv, Now
    <2>2. OnTrack(q', Now' - 1)
      BY <1>1, <1>2, <1>3, <2>1 DEF ContinuesRun
    <2>. QED BY <1>5, <2>1, <2>2
  <1>11. ASSUME UNCHANGED memVars, pc \in Working \ {"step"}, pc' \in Working \ {"step"}
         PROVE  OnTrack(q, Now) /\ OnTrack(q', Now')
    BY <1>1, <1>2, <1>3, <1>11 DEF ContinuesRun, Working, memVars, Now
  <1>12. CASE OpenDump \/ WriteDump
    <2>1. /\ pc \in Working \ {"step"} /\ pc' \in Working \ {"step"}
          /\ UNCHANGED <<rst, stru, memVars>>
      BY <1>12, PlacesAfter DEF OpenDump, WriteDump, Writes, Working
    <2>. QED BY <1>5, <1>11, <2>1 DEF Working
  <1>13. CASE OpenStru
    <2>1. /\ pc \in Working \ {"step"} /\ pc' \in Working \ {"step"}
          /\ UNCHANGED <<rst, memVars>> /\ stru' = [stru EXCEPT ![Now] = NoStru]
      BY <1>13 DEF OpenStru, Writes, Working
    <2>2. \A n \in 0 .. Nstep : stru'[n].whole => stru'[n] = stru[n]
      BY <2>1 DEF FilesInv, NoStru
    <2>3. \A n \in 0 .. Nstep : stru'[n].whole => stru'[n].pos = n /\ stru'[n].vel = n
      BY <1>3, <2>2
    <2>. QED BY <1>3, <1>11, <2>1, <2>3 DEF Working
  <1>14. CASE WriteStru
    <2>1. /\ pc \in Working \ {"step"} /\ pc' \in Working \ {"step"}
          /\ UNCHANGED <<rst, memVars>>
          /\ stru' = [stru EXCEPT ![Now] =
                        [whole |-> TRUE, pos |-> q["pos"], vel |-> q["vel"]]]
      BY <1>14 DEF WriteStru, Writes, Working
    <2>2. q["pos"] = Now /\ q["vel"] = Now
      <3>1. {"pos", "vel"} \subseteq DOMAIN q
        BY DEF ControlInv, Carried, Phase
      <3>. QED BY <1>11, <2>1, <3>1 DEF OnTrack, Ref, Fixed
    <2>3. \A n \in 0 .. Nstep : stru'[n].whole => stru'[n].pos = n /\ stru'[n].vel = n
      BY <1>3, <2>1, <2>2 DEF FilesInv
    <2>. QED BY <1>3, <1>11, <2>1, <2>3 DEF Working
  <1>15. CASE OpenRestart
    <2>1. /\ pc \in Working \ {"step"} /\ pc' \in Working \ {"step"}
          /\ UNCHANGED <<stru, memVars>> /\ rst' = [lines |-> 0, step |-> Now, q |-> q]
      BY <1>15 DEF OpenRestart, Writes, Working
    <2>2. OnTrack(rst'.q, rst'.step)
      BY <1>11, <2>1
    <2>. QED BY <1>3, <1>11, <2>1, <2>2 DEF Working
  <1>16. CASE WriteLine
    <2>1. /\ pc \in Working \ {"step"} /\ pc' \in Working \ {"step"}
          /\ UNCHANGED <<stru, memVars>> /\ rst' = [rst EXCEPT !.lines = @ + 1]
          /\ pc = "rst_write"
      BY <1>16 DEF WriteLine, Writes, Working
    <2>2. rst.lines # Off /\ rst'.q = rst.q /\ rst'.step = rst.step
      BY <2>1, SettingsKept DEF FilesInv, Restarts, Off
    <2>. QED BY <1>3, <1>11, <2>1, <2>2 DEF Working
  <1>. QED BY <1>6, <1>7, <1>8, <1>9, <1>10, <1>12, <1>13, <1>14, <1>15, <1>16 DEF Next

\* Quotient and remainder
LEMMA Division ==
    ASSUME NEW r \in Nat \ {0}, NEW a \in Int
    PROVE  a \div r \in Int /\ a = r * (a \div r) + (a % r) /\ a % r \in 0 .. r - 1
  OBVIOUS

\* No other multiple of r is as small.
LEMMA SmallMultiple ==
    ASSUME NEW r \in Nat \ {0}, NEW j \in Int, r * j \in 0 .. r - 1
    PROVE  r * j = 0
  <1>1. CASE j >= 1
    <2>1. r * j = r + r * (j - 1) /\ r * (j - 1) >= 0
      BY <1>1
    <2>. QED BY <2>1
  <1>2. CASE j <= -1
    <2>1. r * (-j) >= r
      BY <1>2
    <2>. QED BY <2>1
  <1>. QED BY <1>1, <1>2

\* The next multiple
LEMMA Multiples ==
    ASSUME NEW r \in Nat \ {0}, NEW a \in Int, a % r = 0
    PROVE  (a + r) % r = 0
  <1>1. a + r \in Int
    OBVIOUS
  <1>2. a \div r \in Int /\ a = r * (a \div r) + (a % r)
    BY Division
  <1>3. /\ (a + r) \div r \in Int
        /\ a + r = r * ((a + r) \div r) + ((a + r) % r)
        /\ (a + r) % r \in 0 .. r - 1
    BY <1>1, Division
  <1>. DEFINE k == a \div r
              l == (a + r) \div r
              m == (a + r) % r
  <1>4. k \in Int /\ l \in Int /\ a = r * k /\ a + r = r * l + m /\ m \in 0 .. r - 1
    BY <1>2, <1>3
  <1>. HIDE DEF k, l, m
  <1>5. r * (k + 1 - l) = m
    BY <1>4
  <1>6. m = 0
    BY <1>4, <1>5, SmallMultiple, k + 1 - l \in Int
  <1>. QED BY <1>6 DEF m

LEMMA WorkKept == IInv /\ Next => WorkInv'
  <1>. SUFFICES ASSUME ControlInv, FilesInv, PairInv, WorkInv, Next PROVE WorkInv'
    BY DEF IInv
  <1>1. /\ inp' = inp /\ inp \in Inputs /\ inp.restartfreq \in Nat \ {0}
        /\ Nstep \in Nat /\ Now \in Int /\ rst.step \in 0 .. Nstep
        /\ Off \in Int /\ Off # 0
        /\ Len(Lines(inp.kind)) \in Nat /\ Len(Lines(inp.kind)) >= 2
    BY SettingsKept, InputFacts DEF ControlInv, FilesInv, Restarts, Now, Off
  <1>2. ASSUME rst.lines # Off, Now - rst.step <= inp.restartfreq,
               Now % inp.restartfreq # 0
        PROVE  Now - rst.step < inp.restartfreq
    <2>1. rst.step % inp.restartfreq = 0
      BY <1>2 DEF WorkInv
    <2>2. (rst.step + inp.restartfreq) % inp.restartfreq = 0
      BY <1>1, <2>1, Multiples
    <2>3. Now # rst.step + inp.restartfreq
      BY <1>2, <2>2
    <2>. QED BY <1>1, <1>2, <2>3
  <1>3. Complete => rst.lines # Off
    BY <1>1 DEF Complete, Off
  <1>4. CASE Launch
    <2>1. UNCHANGED <<rst, inp>> /\ pc' \in {"setup", "quit"}
      BY <1>4 DEF Launch, fileVars
    <2>2. pc' = "setup" => Now' = 0
      <3>1. pc' = "setup" => step_' = 0 /\ step_rst_' = 0
        BY <1>4 DEF Launch
      <3>. QED BY <3>1 DEF Now
    <2>. QED BY <1>1, <2>1, <2>2 DEF WorkInv, Complete
  <1>5. CASE Kill \/ SetupQuits
    <2>1. /\ UNCHANGED <<rst, clean>> /\ pc' \in {"killed", "quit"}
          /\ pc' = "killed" => Now' = Now /\ pc # "quit"
      BY <1>5 DEF Kill, SetupQuits, fileVars, memVars, Now
    <2>. QED BY <1>1, <2>1 DEF WorkInv, Complete
  <1>6. CASE Setup
    <2>1. /\ pc = "setup" /\ pc' = AfterStep(step_rst_') /\ UNCHANGED rst
          /\ step_rst_' = (IF md_restart THEN MdStep ELSE 0) /\ step_' = 0
      BY <1>6 DEF Setup, fileVars, ControlInv
    <2>2. step_rst_' \in 0 .. Nstep /\ Now' = step_rst_'
      BY <1>1, <2>1, ReadStep DEF FilesInv, Now
    <2>3. /\ pc' \in {"dump", "stru", "next"}
          /\ pc' = "stru" => Now' % inp.restartfreq = 0
      BY <2>1, <2>2 DEF AfterStep, AfterDump
    <2>4. Complete => Now' = rst.step
      BY <1>1, <1>3, <2>1, <2>2, ReadStep DEF PairInv, FilesInv
    <2>5. rst.lines = Off => Now' = 0
      BY <2>1, <2>2 DEF PairInv
    <2>6. Now' = 0 => pc' # "next"
      BY <1>1, <2>1, <2>2 DEF AfterStep, AfterDump
    <2>. QED BY <1>1, <2>1, <2>3, <2>4, <2>5, <2>6 DEF WorkInv, Complete
  <1>7. CASE Step \/ WriteDump
    <2>1. /\ pc \in {"step", "dump_write"} /\ Now' = Now /\ UNCHANGED clean
          /\ pc' \in {"dump", "stru", "next"} /\ UNCHANGED rst
          /\ pc' = "stru" => Now % inp.restartfreq = 0
          /\ pc' = "next" => Now % inp.restartfreq # 0
      BY <1>7 DEF Step, WriteDump, Writes, AfterStep, AfterDump, fileVars, memVars, Now
    <2>. QED BY <1>1, <1>2, <1>3, <2>1 DEF WorkInv, Complete
  <1>8. CASE OpenDump \/ OpenStru \/ WriteStru
    <2>1. /\ pc \in {"dump", "stru", "stru_write"} /\ Now' = Now
          /\ pc' \in {"dump_write", "stru_write", "rst"} /\ UNCHANGED <<rst, clean>>
          /\ pc' # "dump_write" => pc \in {"stru", "stru_write"}
      BY <1>8 DEF OpenDump, OpenStru, WriteStru, Writes, memVars, Now
    <2>. QED BY <1>1, <2>1 DEF WorkInv, Complete
  <1>9. CASE OpenRestart
    <2>1. /\ pc = "rst" /\ pc' = "rst_write" /\ Now' = Now
          /\ rst'.lines = 0 /\ rst'.step = Now
      BY <1>9 DEF OpenRestart, Writes, memVars, Now
    <2>. QED BY <1>1, <2>1 DEF WorkInv, Complete
  <1>10. CASE WriteLine
    <2>1. /\ pc = "rst_write" /\ pc' \in {"rst_write", "next"} /\ Now' = Now
          /\ rst'.step = rst.step /\ rst'.lines # Off
      BY <1>1, <1>10 DEF WriteLine, Writes, memVars, Now, FilesInv, Restarts
    <2>2. rst.step = Now /\ Now % inp.restartfreq = 0
      BY <2>1 DEF FilesInv, WorkInv
    <2>. QED BY <1>1, <2>1, <2>2 DEF WorkInv
  <1>11. CASE NextStep
    <2>1. /\ pc = "next" /\ pc' \in {"step", "done"} /\ Now' = Now + 1
          /\ UNCHANGED <<rst, clean>>
      BY <1>11 DEF NextStep, fileVars, ControlInv, Now
    <2>. QED BY <1>1, <2>1 DEF WorkInv, Complete
  <1>. QED BY <1>4, <1>5, <1>6, <1>7, <1>8, <1>9, <1>10, <1>11 DEF Next

LEMMA StutterKept == IInv /\ UNCHANGED vars => IInv'
  <1>. SUFFICES ASSUME IInv, UNCHANGED vars PROVE IInv'
    OBVIOUS
  <1>. USE DEF vars, memVars, fileVars
  <1>1. UNCHANGED <<Now, Complete>>
    BY DEF Now, Complete
  <1>2. ControlInv' /\ FilesInv' /\ PairInv'
    BY <1>1 DEF IInv, ControlInv, FilesInv, PairInv, Restarts, BetweenFiles
  <1>3. ValuesInv'
    BY <1>1 DEF IInv, ValuesInv, ContinuesRun, Constructed, Repeatable, OnTrack, Ref,
       TargetTemp, Tlast
  <1>4. WorkInv'
    BY <1>1 DEF IInv, WorkInv
  <1>. QED BY <1>2, <1>3, <1>4 DEF IInv

THEOREM InductiveInvariant == Spec => []IInv
  <1>1. IInv /\ [Next]_vars => IInv'
    BY ControlKept, FilesKept, PairKept, ValuesKept, WorkKept, StutterKept DEF IInv
  <1>. QED BY InitKept, <1>1, PTL DEF Spec

-----------------------------------------------------------------------------
(* What follows from it *)

\* Every variable has its type.
THEOREM TypeCorrect == Spec => []TypeOK
  <1>1. IInv => TypeOK
    <2>. SUFFICES ASSUME IInv PROVE TypeOK
      OBVIOUS
    <2>1. ControlInv /\ FilesInv /\ Nstep \in Nat
      BY NstepAssumption DEF IInv
    <2>2. Now \in 0 .. Nstep + 1
      BY <2>1 DEF ControlInv, Now
    <2>. QED BY <2>1, <2>2
             DEF ControlInv, FilesInv, TypeOK, Working, Frames, Structures, Restarts
  <1>. QED BY InductiveInvariant, <1>1, PTL

\* Whenever a process is killed outside the two places that leave a pair of
\* files incomplete, Restart_md.dat and the structure it names are whole, of
\* one step, and have every value of the uninterrupted run at that step.
THEOREM AlwaysRestartable == Spec => []Restartable
  <1>1. IInv => Restartable
    <2>. SUFFICES ASSUME IInv, clean, rst.lines # Off, ~BetweenFiles,
                         pc \notin {"killed", "quit"}
                  PROVE  /\ Complete /\ stru[rst.step].whole
                         /\ Repeatable => /\ stru[rst.step].pos = rst.step
                                          /\ stru[rst.step].vel = rst.step
                                          /\ OnTrack(rst.q, rst.step)
      BY DEF Restartable
    <2>1. Complete /\ stru[rst.step].whole
      BY DEF IInv, PairInv, BetweenFiles
    <2>2. rst.step \in 0 .. Nstep
      BY DEF IInv, FilesInv, Restarts
    <2>3. Repeatable => /\ stru[rst.step].pos = rst.step /\ stru[rst.step].vel = rst.step
                        /\ OnTrack(rst.q, rst.step)
      BY <2>1, <2>2 DEF IInv, ValuesInv
    <2>. QED BY <2>1, <2>3
  <1>. QED BY InductiveInvariant, <1>1, PTL

\* After any number of kills and restarts the integrator carries the values
\* the uninterrupted run has at that step.
THEOREM RestartContinues == Spec => []ContinuesRun
  <1>1. IInv => ContinuesRun
    BY DEF IInv, ValuesInv, ContinuesRun
  <1>. QED BY InductiveInvariant, <1>1, PTL

\* A kill outside the places of BetweenFiles leaves files to start from that
\* are at most restartfreq steps old, or the run was still at step 0.
THEOREM LittleWorkLost == Spec => []WorkLost
  <1>1. IInv => WorkLost
    <2>. SUFFICES ASSUME IInv, clean, ~BetweenFiles, pc \notin {"killed", "quit"},
                         rst.lines # Off
                  PROVE  /\ Complete /\ stru[rst.step].whole
                         /\ Now - rst.step <= inp.restartfreq
      BY DEF IInv, WorkInv, WorkLost
    <2>1. Complete /\ stru[rst.step].whole
      BY DEF IInv, PairInv, BetweenFiles
    <2>. QED BY <2>1 DEF IInv, WorkInv
  <1>. QED BY InductiveInvariant, <1>1, PTL

-----------------------------------------------------------------------------
(* The frames of MD_dump *)

\* Frame i is the last whole one of step n, and that of the uninterrupted run.
LastFrame(frames, i, n) ==
    /\ frames[i] = [step |-> n, pos |-> n, whole |-> TRUE]
    /\ \A j \in i + 1 .. Len(frames) : frames[j].whole => frames[j].step # n

HasFrame(frames, n) == \E i \in DOMAIN frames : LastFrame(frames, i, n)

AfterFrame == {"stru", "stru_write", "rst", "rst_write", "next"}

\* The step whose frame was written last
Reached == IF pc \in AfterFrame THEN Now ELSE Now - 1

\* There are frames of the steps this launch has reached and of those before the
\* step the next launch begins with; the run never works on a step before that.
FramesInv ==
    clean /\ Repeatable =>
        /\ pc \in Working /\ rst.lines # Off => rst.step <= Now
        /\ pc = "dump_write" => /\ dump[Len(dump)].step = Now
                                /\ dump[Len(dump)].pos = Now
        /\ \A n \in 0 .. Nstep :
              /\ n % inp.dumpfreq = 0
              /\ n <= Reached \/ (rst.lines # Off /\ n < rst.step)
              => HasFrame(dump, n)

\* Opening a frame takes none away.
LEMMA OpenFrame ==
    ASSUME NEW frames \in Seq(Frames), NEW f \in Frames, ~f.whole, NEW n, HasFrame(frames, n)
    PROVE  HasFrame(Append(frames, f), n)
  <1>. DEFINE more == Append(frames, f)
  <1>1. PICK i \in DOMAIN frames : LastFrame(frames, i, n)
    BY DEF HasFrame
  <1>2. /\ Len(frames) \in Nat /\ Len(more) = Len(frames) + 1
        /\ DOMAIN frames = 1 .. Len(frames) /\ DOMAIN more = 1 .. Len(frames) + 1
        /\ \A j \in 1 .. Len(frames) : more[j] = frames[j]
        /\ more[Len(frames) + 1] = f
    OBVIOUS
  <1>. HIDE DEF more
  <1>3. i \in DOMAIN more /\ more[i] = frames[i] /\ i \in Nat
    BY <1>1, <1>2
  <1>4. ASSUME NEW j \in i + 1 .. Len(more), more[j].whole PROVE more[j].step # n
    <2>1. j # Len(frames) + 1
      BY <1>2, <1>4
    <2>2. j \in 1 .. Len(frames) /\ j \in i + 1 .. Len(frames)
      BY <1>2, <1>3, <1>4, <2>1
    <2>. QED BY <1>1, <1>2, <1>4, <2>2 DEF LastFrame
  <1>5. LastFrame(more, i, n)
    BY <1>1, <1>3, <1>4 DEF LastFrame
  <1>. QED BY <1>3, <1>5 DEF HasFrame, more

\* Closing the last frame gives its step a frame, and keeps those of the others.
LEMMA CloseFrame ==
    ASSUME NEW frames \in Seq(Frames), frames # <<>>, NEW n,
           \/ HasFrame(frames, n) /\ frames[Len(frames)].step # n
           \/ frames[Len(frames)].step = n /\ frames[Len(frames)].pos = n
    PROVE  HasFrame([frames EXCEPT ![Len(frames)].whole = TRUE], n)
  <1>. DEFINE l == Len(frames)
              closed == [frames EXCEPT ![l].whole = TRUE]
  <1>1. /\ l \in Nat /\ l >= 1 /\ DOMAIN frames = 1 .. l
        /\ DOMAIN closed = 1 .. l /\ Len(closed) = l
        /\ \A j \in 1 .. l - 1 : closed[j] = frames[j]
        /\ closed[l] = [frames[l] EXCEPT !.whole = TRUE]
        /\ frames[l] \in Frames
    <2>1. l \in Nat /\ l >= 1 /\ DOMAIN frames = 1 .. l /\ frames[l] \in Frames
      OBVIOUS
    <2>2. \A j \in 1 .. l : closed[j] = IF j = l THEN [frames[l] EXCEPT !.whole = TRUE]
                                             ELSE frames[j]
      BY <2>1
    <2>3. [frames[l] EXCEPT !.whole = TRUE] \in Frames
      BY <2>1 DEF Frames
    <2>4. closed \in Seq(Frames) /\ DOMAIN closed = 1 .. l
      BY <2>1, <2>3
    <2>5. Len(closed) = l
      BY <2>1, <2>4
    <2>. QED BY <2>1, <2>2, <2>4, <2>5
  <1>. HIDE DEF l, closed
  <1>2. /\ closed[l] = [step |-> frames[l].step, pos |-> frames[l].pos, whole |-> TRUE]
        /\ closed[l].step = frames[l].step
    BY <1>1 DEF Frames
  <1>3. CASE HasFrame(frames, n) /\ frames[l].step # n
    <2>1. PICK i \in DOMAIN frames : LastFrame(frames, i, n)
      BY <1>3 DEF HasFrame
    <2>2. i # l
      BY <1>3, <2>1 DEF LastFrame
    <2>3. i \in 1 .. l - 1 /\ i \in DOMAIN closed /\ closed[i] = frames[i]
      BY <1>1, <2>1, <2>2
    <2>4. ASSUME NEW j \in i + 1 .. l, closed[j].whole PROVE closed[j].step # n
      <3>1. CASE j = l
        BY <1>2, <1>3, <3>1
      <3>2. CASE j # l
        <4>1. j \in 1 .. l - 1 /\ j \in i + 1 .. l
          BY <1>1, <2>3, <2>4, <3>2
        <4>. QED BY <1>1, <2>1, <2>4, <4>1 DEF LastFrame, l
      <3>. QED BY <3>1, <3>2
    <2>5. LastFrame(closed, i, n)
      BY <1>1, <2>1, <2>3, <2>4 DEF LastFrame
    <2>. QED BY <2>3, <2>5 DEF HasFrame, closed, l
  <1>4. CASE frames[l].step = n /\ frames[l].pos = n
    <2>1. \A j \in l + 1 .. Len(closed) : FALSE
      BY <1>1
    <2>2. LastFrame(closed, l, n)
      BY <1>1, <1>2, <1>4, <2>1 DEF LastFrame
    <2>3. l \in DOMAIN closed
      BY <1>1
    <2>. QED BY <2>2, <2>3 DEF HasFrame, closed, l
  <1>. QED BY <1>3, <1>4 DEF l

LEMMA FramesInvKept == IInv /\ FramesInv /\ Next => FramesInv'
  <1>. SUFFICES ASSUME ControlInv, FilesInv, PairInv, ValuesInv, FramesInv, Next,
                       clean', Repeatable'
                PROVE  FramesInv'
    BY DEF IInv, FramesInv
  <1>1. /\ inp' = inp /\ inp \in Inputs /\ Repeatable /\ Nstep \in Nat /\ Off \in Int
        /\ Now \in Int /\ rst.step \in 0 .. Nstep
        /\ pc \in Working => Now \in 0 .. Nstep
    <2>1. inp' = inp /\ inp \in Inputs /\ (pc \in Working => Now \in 0 .. Nstep)
      BY SettingsKept
    <2>2. Repeatable
      BY <2>1 DEF Repeatable, Tlast
    <2>3. Now \in Int
      BY NstepAssumption DEF ControlInv, Now
    <2>4. rst.step \in 0 .. Nstep
      BY DEF FilesInv, Restarts
    <2>. QED BY <2>1, <2>2, <2>3, <2>4, NstepAssumption DEF Off
  <1>2. clean
    BY DEF Next, Launch, Kill, Setup, SetupQuits, Step, Writes, OpenDump, WriteDump,
       OpenStru, WriteStru, OpenRestart, WriteLine, NextStep
  <1>3. /\ pc \in Working /\ rst.lines # Off => rst.step <= Now
        /\ pc = "dump_write" => dump[Len(dump)].step = Now /\ dump[Len(dump)].pos = Now
        /\ \A n \in 0 .. Nstep :
              /\ n % inp.dumpfreq = 0
              /\ n <= Reached \/ (rst.lines # Off /\ n < rst.step)
              => HasFrame(dump, n)
    BY <1>1, <1>2 DEF FramesInv
  <1>4. ASSUME pc' \in Working /\ rst'.lines # Off => rst'.step <= Now',
               pc' = "dump_write" => /\ dump'[Len(dump')].step = Now'
                                     /\ dump'[Len(dump')].pos = Now',
               \A n \in 0 .. Nstep :
                  /\ n % inp.dumpfreq = 0
                  /\ n <= Reached' \/ (rst'.lines # Off /\ n < rst'.step)
                  => HasFrame(dump', n)
        PROVE  FramesInv'
    BY <1>1, <1>4 DEF FramesInv, HasFrame, LastFrame
  <1>5. ASSUME UNCHANGED <<dump, rst>>, pc' # "dump_write",
               pc' \in Working /\ rst.lines # Off => rst.step <= Now',
               \A n \in 0 .. Nstep :
                  n % inp.dumpfreq = 0 /\ n <= Reached'
                  => n <= Reached \/ (rst.lines # Off /\ n < rst.step)
        PROVE  FramesInv'
    BY <1>3, <1>4, <1>5
  <1>6. CASE Launch
    <2>1. UNCHANGED <<dump, rst>> /\ pc' \in {"setup", "quit"} /\ pc \in {"killed", "done"}
      BY <1>6 DEF Launch, fileVars
    <2>2. \/ pc' = "quit" /\ Now' = Now
          \/ pc' = "setup" /\ Now' = 0
      <3>1. \/ pc' = "quit" /\ UNCHANGED memVars
            \/ pc' = "setup" /\ step_' = 0 /\ step_rst_' = 0
        BY <1>6 DEF Launch
      <3>. QED BY <3>1 DEF Now, memVars
    <2>3. Reached' = Reached \/ Reached' = -1
      BY <2>1, <2>2 DEF Reached, AfterFrame
    <2>. QED BY <1>1, <1>5, <2>1, <2>3 DEF Working
  <1>7. CASE Kill
    <2>1. UNCHANGED <<dump, rst>> /\ pc' = "killed" /\ Now' = Now
      BY <1>7 DEF Kill, fileVars, memVars, Now
    <2>2. Reached' <= Reached
      BY <1>1, <2>1 DEF Reached, AfterFrame
    <2>3. Reached \in Int /\ Reached' \in Int
      BY <1>1, <2>1 DEF Reached
    <2>. QED BY <1>5, <2>1, <2>2, <2>3 DEF Working
  <1>8. CASE Setup \/ SetupQuits
    <2>1. /\ pc = "setup" /\ UNCHANGED <<dump, rst>> /\ step_ = 0 /\ step_' = 0
          /\ \/ /\ step_rst_' = IF md_restart THEN MdStep ELSE 0
                /\ pc' = AfterStep(step_rst_')
             \/ md_restart /\ step_rst_' = MdStep /\ pc' = "quit"
      BY <1>8 DEF Setup, SetupQuits, fileVars, ControlInv
    <2>2. md_restart \in BOOLEAN /\ (md_restart <=> rst.lines # Off)
      BY <2>1 DEF PairInv, ControlInv
    <2>3. rst.lines # Off => MdStep = rst.step
      <3>1. rst.lines # Off => Complete
        BY <1>2, <2>1 DEF PairInv
      <3>. QED BY <1>1, <3>1, ReadStep DEF FilesInv
    <2>4. /\ Now' = IF md_restart THEN rst.step ELSE 0
          /\ \/ pc' = AfterStep(Now')
             \/ pc' = "quit"
      BY <1>1, <2>1, <2>2, <2>3 DEF Now
    <2>5. /\ pc' \in {"dump", "stru", "next", "quit"}
          /\ pc' \in {"stru", "next"} => Now' % inp.dumpfreq # 0
      BY <2>4, PlacesAfter DEF AfterStep
    <2>6. rst.lines # Off => rst.step <= Now'
      BY <1>1, <2>2, <2>4
    <2>7. ASSUME NEW n \in 0 .. Nstep, n % inp.dumpfreq = 0, n <= Reached'
          PROVE  rst.lines # Off /\ n < rst.step
      <3>1. n <= Now' - 1
        BY <1>1, <2>4, <2>5, <2>7 DEF Reached, AfterFrame
      <3>. QED BY <1>1, <2>2, <2>4, <3>1
    <2>. QED BY <1>5, <2>1, <2>5, <2>6, <2>7
  <1>9. CASE Step
    <2>1. /\ pc = "step" /\ UNCHANGED <<dump, rst>> /\ Now' = Now
          /\ pc' \in {"dump", "stru", "next"}
          /\ pc' \in {"stru", "next"} => Now % inp.dumpfreq # 0
      BY <1>9, PlacesAfter DEF Step, AfterStep, fileVars, Now
    <2>2. ASSUME NEW n \in 0 .. Nstep, n % inp.dumpfreq = 0, n <= Reached'
          PROVE  n <= Reached
      BY <1>1, <2>1, <2>2 DEF Reached, AfterFrame
    <2>. QED BY <1>3, <1>5, <2>1, <2>2 DEF Working
  <1>10. CASE OpenDump
    <2>. DEFINE f == [step |-> Now, pos |-> q["pos"], whole |-> FALSE]
    <2>1. /\ pc = "dump" /\ pc' = "dump_write" /\ UNCHANGED <<rst, memVars>> /\ Now' = Now
          /\ dump' = Append(IF Now = 0 THEN <<>> ELSE dump, f)
      BY <1>10 DEF OpenDump, Writes, memVars, Now
    <2>2. Now \in 0 .. Nstep
      BY <1>1, <2>1 DEF Working
    <2>3. q["pos"] = Now
      <3>1. OnTrack(q, Now) /\ "pos" \in DOMAIN q
        BY <1>1, <1>2, <2>1 DEF ValuesInv, ContinuesRun, ControlInv, Carried, Phase
      <3>. QED BY <3>1 DEF OnTrack, Ref, Fixed
    <2>4. f \in Frames /\ ~f.whole /\ dump \in Seq(Frames) /\ <<>> \in Seq(Frames)
      BY <2>2, <2>3, InputFacts, <1>1 DEF Frames, FilesInv
    <2>5. dump'[Len(dump')] = f
      BY <2>1, <2>4
    <2>6. ASSUME NEW n \in 0 .. Nstep, n % inp.dumpfreq = 0,
                 n <= Reached' \/ (rst.lines # Off /\ n < rst.step)
          PROVE  HasFrame(dump', n)
      <3>1. n <= Reached \/ (rst.lines # Off /\ n < rst.step)
        BY <2>1, <2>6 DEF Reached, AfterFrame
      <3>2. HasFrame(dump, n)
        BY <1>3, <2>6, <3>1
      <3>3. Now # 0
        BY <1>1, <1>3, <2>1, <3>1 DEF Reached, AfterFrame, Working
      <3>4. dump' = Append(dump, f)
        BY <2>1, <3>3
      <3>. QED BY <2>4, <3>2, <3>4, OpenFrame
    <2>7. dump'[Len(dump')].step = Now' /\ dump'[Len(dump')].pos = Now'
      BY <2>1, <2>3, <2>5
    <2>8. rst'.lines # Off => rst'.step <= Now'
      BY <1>3, <2>1 DEF Working
    <2>9. \A n \in 0 .. Nstep :
              /\ n % inp.dumpfreq = 0
              /\ n <= Reached' \/ (rst'.lines # Off /\ n < rst'.step)
              => HasFrame(dump', n)
      BY <2>1, <2>6
    <2>. QED BY <1>4, <2>7, <2>8, <2>9
  <1>11. CASE WriteDump
    <2>1. /\ pc = "dump_write" /\ pc' \in {"stru", "next"} /\ UNCHANGED rst /\ Now' = Now
          /\ dump' = [dump EXCEPT ![Len(dump)].whole = TRUE]
      BY <1>11, PlacesAfter DEF WriteDump, Writes, memVars, Now
    <2>2. /\ dump \in Seq(Frames) /\ dump # <<>>
          /\ dump[Len(dump)].step = Now /\ dump[Len(dump)].pos = Now
      BY <1>3, <2>1 DEF FilesInv
    <2>3. ASSUME NEW n \in 0 .. Nstep, n % inp.dumpfreq = 0,
                 n <= Reached' \/ (rst.lines # Off /\ n < rst.step)
          PROVE  HasFrame(dump', n)
      <3>1. CASE n = Now
        BY <2>1, <2>2, <3>1, CloseFrame
      <3>2. CASE n # Now
        <4>1. n <= Reached \/ (rst.lines # Off /\ n < rst.step)
          BY <1>1, <2>1, <2>3, <3>2 DEF Reached, AfterFrame
        <4>2. HasFrame(dump, n)
          BY <1>3, <2>3, <4>1
        <4>. QED BY <2>1, <2>2, <3>2, <4>2, CloseFrame
      <3>. QED BY <3>1, <3>2
    <2>. QED BY <1>3, <1>4, <2>1, <2>3 DEF Working
  <1>12. CASE OpenStru \/ WriteStru
    <2>1. /\ pc \in AfterFrame /\ pc' \in AfterFrame /\ UNCHANGED <<dump, rst>>
          /\ Now' = Now
      BY <1>12 DEF OpenStru, WriteStru, Writes, AfterFrame, memVars, Now
    <2>2. Reached' = Reached
      BY <2>1 DEF Reached
    <2>. QED BY <1>3, <1>5, <2>1, <2>2 DEF AfterFrame, Working
  <1>13. CASE OpenRestart \/ WriteLine
    <2>1. /\ pc \in AfterFrame /\ pc' \in AfterFrame /\ UNCHANGED dump /\ Now' = Now
          /\ rst'.step = Now
      <3>1. CASE OpenRestart
        BY <3>1 DEF OpenRestart, Writes, AfterFrame, memVars, Now
      <3>2. CASE WriteLine
        <4>1. rst'.step = rst.step /\ rst.step = Now
          BY <3>2 DEF WriteLine, Writes, FilesInv, Restarts
        <4>. QED BY <3>2, <4>1 DEF WriteLine, Writes, AfterFrame, memVars, Now
      <3>. QED BY <1>13, <3>1, <3>2
    <2>2. Reached' = Now /\ Reached = Now
      BY <2>1 DEF Reached
    <2>3. ASSUME NEW n \in 0 .. Nstep, n <= Reached' \/ (rst'.lines # Off /\ n < rst'.step)
          PROVE  n <= Reached
      BY <1>1, <2>1, <2>2, <2>3
    <2>. QED BY <1>1, <1>3, <1>4, <2>1, <2>3 DEF AfterFrame
  <1>14. CASE NextStep
    <2>1. /\ pc = "next" /\ pc' \in {"step", "done"} /\ UNCHANGED <<dump, rst>>
          /\ Now' = Now + 1
      BY <1>14 DEF NextStep, fileVars, ControlInv, Now
    <2>2. Reached' = Reached
      BY <1>1, <2>1 DEF Reached, AfterFrame
    <2>. QED BY <1>1, <1>3, <1>5, <2>1, <2>2 DEF Working
  <1>. QED BY <1>6, <1>7, <1>8, <1>9, <1>10, <1>11, <1>12, <1>13, <1>14 DEF Next

\* MD_dump has a whole frame of every dumpfreq-th step reached, and the last
\* one of a step is that of the uninterrupted run, however often the run was
\* killed, also within a frame, and launched again.
THEOREM FramesAreKept == Spec => []FramesKept
  <1>1. Init => FramesInv
    <2>. SUFFICES ASSUME Init PROVE FramesInv
      OBVIOUS
    <2>1. pc = "setup" /\ Now = 0 /\ rst.lines = Off
      BY DEF Init, NoRestart, Now
    <2>2. Reached = -1 /\ pc \notin Working
      BY <2>1 DEF Reached, AfterFrame, Working
    <2>. QED BY <2>1, <2>2, NstepAssumption DEF FramesInv
  <1>2. IInv /\ FramesInv /\ [Next]_vars => FramesInv'
    <2>1. ASSUME FramesInv, UNCHANGED vars PROVE FramesInv'
      BY <2>1 DEF vars, memVars, fileVars, FramesInv, Reached, HasFrame, LastFrame, Now,
         Repeatable, Tlast
    <2>. QED BY <2>1, FramesInvKept
  <1>3. IInv /\ FramesInv => FramesKept
    <2>. SUFFICES ASSUME IInv, FramesInv, clean, Repeatable,
                         NEW n \in 0 .. Reached, n % inp.dumpfreq = 0
                  PROVE  HasFrame(dump, n)
      BY DEF FramesKept, Reached, AfterFrame, HasFrame, LastFrame
    <2>1. Nstep \in Nat /\ Now \in Int /\ Reached <= Nstep /\ Reached \in Int
      BY NstepAssumption DEF IInv, ControlInv, Working, Reached, AfterFrame, Now
    <2>2. n \in 0 .. Nstep
      BY <2>1
    <2>. QED BY <2>2 DEF FramesInv
  <1>. QED BY InductiveInvariant, <1>1, <1>2, <1>3, PTL DEF Spec

-----------------------------------------------------------------------------
(* The loop with its files implements the abstract trajectory. *)

TrajectoryNow == IF pc = "setup" /\ md_restart THEN MdStep ELSE Now
TrajectorySaved == IF rst.lines = Off THEN -1 ELSE MdStep

\* MdStep is a function of the settings and of Restart_md.dat.
LEMMA MdStepKept ==
    ASSUME UNCHANGED <<inp, rst>>
    PROVE  MdStep' = MdStep /\ TrajectorySaved' = TrajectorySaved
  BY DEF MdStep, Read, TrajectorySaved

LEMMA LaunchMaps ==
    ASSUME IInv, Launch
    PROVE  /\ TrajectorySaved' = TrajectorySaved
           /\ \/ TrajectoryNow' = TrajectoryNow
              \/ TrajectorySaved # -1 /\ TrajectoryNow' = TrajectorySaved
  <1>1. UNCHANGED <<inp, rst>> /\ pc \in {"killed", "done"}
    BY DEF Launch, fileVars
  <1>2. MdStep \in 0 .. Nstep /\ Nstep \in Nat
    BY ReadStep, NstepAssumption DEF IInv, ControlInv, FilesInv
  <1>3. CASE pc' = "quit" /\ UNCHANGED memVars
    BY <1>1, <1>3, MdStepKept DEF TrajectoryNow, memVars, Now
  <1>4. CASE pc' = "setup" /\ md_restart' /\ rst.lines # Off
    BY <1>1, <1>2, <1>4, MdStepKept DEF TrajectoryNow, TrajectorySaved
  <1>. QED BY <1>1, <1>3, <1>4, MdStepKept DEF Launch

\* Setup begins at the step current_md_info has read before.
LEMMA SetupMaps ==
    ASSUME IInv, Setup \/ SetupQuits
    PROVE  TrajectorySaved' = TrajectorySaved /\ TrajectoryNow' = TrajectoryNow
  <1>1. /\ UNCHANGED <<inp, rst>> /\ pc = "setup" /\ pc' # "setup"
        /\ step_ = 0 /\ step_' = 0 /\ step_rst_ = 0 /\ md_restart \in BOOLEAN
        /\ step_rst_' = (IF md_restart THEN MdStep ELSE 0)
    BY PlacesAfter DEF Setup, SetupQuits, fileVars, IInv, ControlInv
  <1>2. MdStep \in 0 .. Nstep
    BY ReadStep DEF IInv, ControlInv, FilesInv
  <1>3. TrajectoryNow' = step_rst_'
    BY <1>1, <1>2 DEF TrajectoryNow, Now
  <1>. QED BY <1>1, <1>3, MdStepKept DEF TrajectoryNow, Now

\* Every behaviour of the loop, its files, kills and launches is one of
\* MDTrajectory: the steps it works on follow each other or go back to the
\* step of the last Restart_md.dat.
THEOREM Refinement == Spec => ImplementsTrajectory
  <1>1. Init => Trajectory!Init
    BY DEF Init, NoRestart, Now, Trajectory!Init
  <1>2. IInv /\ [Next]_vars => [Trajectory!Next]_Trajectory!vars
    <2>. SUFFICES ASSUME IInv, [Next]_vars
                  PROVE  \/ Trajectory!Next
                         \/ /\ TrajectoryNow' = TrajectoryNow
                            /\ TrajectorySaved' = TrajectorySaved
      BY DEF Trajectory!vars, TrajectoryNow, TrajectorySaved
    <2>. USE DEF TrajectoryNow
    <2>1. CASE UNCHANGED vars
      BY <2>1, MdStepKept DEF vars, memVars, fileVars, Now
    <2>2. CASE Launch
      BY <2>2, LaunchMaps DEF Trajectory!Next, Trajectory!Resume, TrajectorySaved
    <2>3. CASE Setup \/ SetupQuits
      BY <2>3, SetupMaps
    <2>4. CASE Kill \/ Step \/ OpenDump \/ WriteDump \/ OpenStru \/ WriteStru
      <3>1. UNCHANGED <<inp, rst, Now>> /\ pc # "setup" /\ pc' # "setup"
        BY <2>4, PlacesAfter DEF Kill, Step, OpenDump, WriteDump, OpenStru, WriteStru,
           Writes, fileVars, memVars, Now
      <3>. QED BY <3>1, MdStepKept
    <2>5. CASE OpenRestart
      <3>1. /\ pc = "rst" /\ pc' = "rst_write" /\ Now' = Now
            /\ rst'.lines = 0
        BY <2>5 DEF OpenRestart, Writes, memVars, Now
      <3>2. MdStep' = 0
        BY <3>1 DEF MdStep, Read
      <3>3. Trajectory!Erase
        BY <3>1, <3>2 DEF Trajectory!Erase, Off
      <3>. QED BY <3>3 DEF Trajectory!Next
    <2>6. CASE WriteLine
      <3>1. /\ pc = "rst_write" /\ pc' \in {"rst_write", "next"} /\ Now' = Now
            /\ inp' = inp /\ rst'.lines = rst.lines + 1 /\ rst'.step = rst.step
        BY <2>6 DEF WriteLine, Writes, memVars, Now, IInv, FilesInv, Restarts
      <3>2. rst.step = Now /\ rst'.lines \in Nat /\ rst'.lines >= 1
        BY <3>1, SettingsKept DEF IInv, FilesInv
      <3>3. Lines(inp.kind)[1] = "step"
        BY InputFacts, LinesOfKinds DEF IInv, ControlInv
      <3>4. "step" \in Read'
        BY <3>1, <3>2, <3>3 DEF Read
      <3>5. MdStep' = Now
        BY <3>1, <3>2, <3>4 DEF MdStep
      <3>6. Trajectory!Save
        BY <3>1, <3>2, <3>5 DEF Trajectory!Save, Off
      <3>. QED BY <3>6 DEF Trajectory!Next
    <2>7. CASE NextStep
      <3>1. /\ pc = "next" /\ pc' \in {"step", "done"} /\ UNCHANGED <<inp, rst>>
            /\ Now' = Now + 1 /\ Now <= Nstep
        BY <2>7 DEF NextStep, fileVars, Now, IInv, ControlInv, Working
      <3>2. Trajectory!Advance
        BY <3>1, MdStepKept DEF Trajectory!Advance, TrajectorySaved
      <3>. QED BY <3>2 DEF Trajectory!Next
    <2>. QED BY <2>1, <2>2, <2>3, <2>4, <2>5, <2>6, <2>7 DEF Next
  <1>. QED BY <1>1, <1>2, InductiveInvariant, PTL
           DEF Spec, ImplementsTrajectory, Trajectory!Spec
=============================================================================
