------------------------------- MODULE RunMD -------------------------------
(***************************************************************************)
(* Run_MD::md_line, the molecular dynamics loop, for every kind of MD_base *)
(* it can run, with its files: MD_dump, STRU/STRU_MD_<step> and            *)
(* Restart_md.dat.  The process may be killed between any two writes and   *)
(* be launched again with md_restart.                                      *)
(*                                                                         *)
(* A quantity is abstracted to the step of the uninterrupted run it has    *)
(* the value of, or Off when it is none of these.  A step of the           *)
(* integrator is a function of the quantities it reads: it goes to the     *)
(* next step of the uninterrupted run from what that run had, and Off it   *)
(* otherwise.  Values agree up to the digits the files keep.               *)
(***************************************************************************)
EXTENDS Integers, Sequences

CONSTANTS
    Inputs,      \* the settings of the runs
    Nstep,       \* md_nstep
    MaxLaunches  \* bound: how often the run is launched again

Kinds == {"verlet", "langevin", "fire", "nhc", "npt", "msst"}

Settings ==
    [kind        : Kinds,
     md_tfirst   : {"unset", "T0"},        \* unset: that of the velocities, T0
     md_tlast    : {"unset", "T0", "T1"},
     dumpfreq    : Nat \ {0},
     restartfreq : Nat \ {0},
     samechain   : BOOLEAN,                \* md_tchain = md_pchain
     relaxed     : Nat]                    \* FIRE: step with forces below force_thr

ASSUME NstepAssumption == Nstep \in Nat \ {0}
ASSUME MaxLaunchesAssumption == MaxLaunches \in Nat
ASSUME InputsAssumption == Inputs \subseteq Settings

VARIABLES
    inp,
    pc,          \* what comes next
    md_restart,
    step_,
    step_rst_,
    q,           \* the quantities the integrator carries from step to step
    stop,
    dump,        \* MD_dump: its frames
    stru,        \* STRU_MD_<step> of every step
    rst,         \* Restart_md.dat
    launches,
    clean        \* history: no run began with an incomplete Restart_md.dat

memVars  == <<md_restart, step_, step_rst_, q, stop>>
fileVars == <<dump, stru, rst>>
vars == <<inp, pc, memVars, fileVars, launches, clean>>

Now == step_ + step_rst_
Off == -1
Val == 0 .. Nstep \cup {Off}

-----------------------------------------------------------------------------
(* The quantities of every kind, and their values in the uninterrupted run *)

Phase == {"pos", "vel", "force"}

Thermostat == {"md_tfirst", "kinetic", "t_target", "eta", "v_eta", "g_eta"}

\* mass: mass_omega and mass_peta
Barostat == {"stress", "v_omega", "peta", "v_peta", "g_peta", "mass"}

Carried(kind) ==
    Phase \cup
    CASE kind = "verlet"   -> {"md_tfirst"}
      [] kind = "langevin" -> {"md_tfirst", "noise"}
      [] kind = "fire"     -> {"alpha", "negative_count", "dt_max", "md_dt"}
      [] kind = "nhc"      -> Thermostat
      [] kind = "npt"      -> Thermostat \cup Barostat
      [] kind = "msst"     -> {"stress", "omega", "e0", "v0", "p0", "lag_pos"}

\* What no step assigns.
Fixed == {"md_tfirst", "mass", "e0", "v0", "p0"}

\* md_tlast of INPUT, which is md_tfirst of INPUT when unset
Tlast == IF inp.md_tlast = "unset" THEN inp.md_tfirst ELSE inp.md_tlast

\* The target temperature of step n: that of step 0 when both ends agree.
TargetTemp(n) == IF Tlast = "T0" THEN 0 ELSE n

Ref(x, n) ==
    CASE x = "t_target" -> TargetTemp(n)
      [] x \in Fixed    -> 0
      [] OTHER          -> n

OnTrack(quantities, n) ==
    \A x \in DOMAIN quantities : quantities[x] = Ref(x, n)

-----------------------------------------------------------------------------
(* Files *)

NoStru == [whole |-> FALSE, pos |-> Off, vel |-> Off]

\* Mutant: v_eta is not saved.
LinesWithoutVEta(kind) ==
    CASE kind \in {"verlet", "langevin"} -> <<"step", "md_tfirst">>
      [] kind = "fire" -> <<"step", "md_tfirst", "alpha", "negative_count", "dt_max",
                            "md_dt">>
      [] kind = "nhc"  -> <<"step", "md_tfirst", "md_tchain", "eta">>
      [] kind = "npt"  -> <<"step", "md_tfirst", "md_tchain", "eta", "v_omega",
                            "md_pchain", "peta">>
      [] kind = "msst" -> <<"step", "md_tfirst", "omega", "e0", "v0", "p0", "lag_pos">>

\* The lines of Restart_md.dat, each of which is flushed.
Lines(kind) ==
    CASE kind \in {"verlet", "langevin"} -> <<"step", "md_tfirst">>
      [] kind = "fire" -> <<"step", "md_tfirst", "alpha", "negative_count", "dt_max",
                            "md_dt">>
      [] kind = "nhc"  -> <<"step", "md_tfirst", "md_tchain", "eta", "v_eta">>
      [] kind = "npt"  -> <<"step", "md_tfirst", "md_tchain", "eta", "v_eta", "v_omega",
                            "md_pchain", "peta", "v_peta">>
      [] kind = "msst" -> <<"step", "md_tfirst", "omega", "e0", "v0", "p0", "lag_pos">>

\* lines: how many of them there are, Off when there is no file.
NoRestart == [lines |-> Off, step |-> 0, q |-> [x \in Carried(inp.kind) |-> Off]]

Complete == rst.lines = Len(Lines(inp.kind))

Read == {Lines(inp.kind)[i] : i \in 1 .. rst.lines}

\* current_md_info: md_step keeps its initial 0 when there is nothing to read.
MdStep == IF "step" \in Read THEN rst.step ELSE 0

\* Mnum is uninitialized when the file ends before md_tchain, and still
\* md_tchain when it ends before md_pchain.
ChainsAccepted ==
    inp.kind \in {"nhc", "npt"} =>
        \/ "md_tchain" \in Read
             /\ (inp.kind = "npt" => "md_pchain" \in Read \/ inp.samechain)
        \/ "md_tchain" \notin Read /\ (inp.kind = "npt" => inp.samechain)

ChainsRejected ==
    /\ inp.kind \in {"nhc", "npt"}
    /\ \/ "md_tchain" \notin Read
       \/ inp.kind = "npt" /\ "md_pchain" \notin Read /\ ~inp.samechain

-----------------------------------------------------------------------------
(* Launching *)

\* The constructors: positions and velocities are those of the structure.
Constructed(pos, vel, restart) ==
    [x \in Carried(inp.kind) |->
        CASE x = "pos" -> pos
          [] x \in {"vel", "kinetic"} -> vel
          [] x = "md_tfirst" -> IF restart /\ inp.md_tfirst = "unset"
                                THEN Off ELSE 0
          [] x \in {"force", "stress", "t_target", "mass", "g_eta", "g_peta",
                    "omega", "e0", "v0", "p0", "lag_pos"} -> Off
          [] OTHER -> 0]

Init ==
    /\ inp \in Inputs
    /\ pc = "setup"
    /\ md_restart = FALSE
    /\ step_ = 0 /\ step_rst_ = 0
    /\ q = Constructed(0, 0, FALSE)
    /\ stop = FALSE
    /\ dump = <<>>
    /\ stru = [n \in 0 .. Nstep |-> NoStru]
    /\ rst = NoRestart
    /\ launches = 0
    /\ clean = TRUE

\* Input_Conv reads the files first; md_line makes the integrator.
Launch ==
    /\ pc \in {"killed", "done"}
    /\ launches < MaxLaunches
    /\ launches' = launches + 1
    /\ IF rst.lines = Off \/ ~stru[MdStep].whole
       THEN pc' = "quit" /\ UNCHANGED <<memVars, clean>>
       ELSE /\ pc' = "setup"
            /\ md_restart' = TRUE
            /\ step_' = 0 /\ step_rst_' = 0
            /\ q' = Constructed(stru[MdStep].pos, stru[MdStep].vel, TRUE)
            /\ stop' = FALSE
            /\ clean' = (clean /\ Complete)
    /\ UNCHANGED <<inp, fileVars>>

\* A kill before setup leaves what a kill before the launch leaves.
Kill ==
    /\ pc \notin {"setup", "killed", "done", "quit"}
    /\ launches < MaxLaunches
    /\ pc' = "killed"
    /\ UNCHANGED <<inp, memVars, fileVars, launches, clean>>

-----------------------------------------------------------------------------
(* One pass of the loop of md_line *)

\* restart(): what is not in the file keeps its value.
Restored ==
    [x \in DOMAIN q |-> IF md_restart /\ x \in Read THEN rst.q[x] ELSE q[x]]

\* What setup computes at step n from the quantities r.
SetUp(r, n) ==
    LET Target == IF r["md_tfirst"] = 0 THEN TargetTemp(n) ELSE Off
    IN  [x \in DOMAIN r |->
            CASE x = "force"  -> r["pos"]
              [] x = "stress" -> IF r["pos"] = r["vel"] THEN r["pos"] ELSE Off
              [] x \in {"t_target", "mass"} -> Target
              [] x = "g_eta"  -> IF Target # Off THEN r["v_eta"] ELSE Off
              [] x = "g_peta" -> IF Target = TargetTemp(0) THEN r["v_peta"]
                                 ELSE Off
              [] x \in {"omega", "e0", "v0", "p0", "lag_pos"} ->
                     IF md_restart THEN r[x] ELSE 0
              [] OTHER -> r[x]]

\* first_half, force_virial, second_half, compute_stress and current_temp
Integrated(n) ==
    IF OnTrack(q, n - 1)
    THEN [x \in DOMAIN q |-> Ref(x, n)]
    ELSE [x \in DOMAIN q |->
            CASE x \in Fixed -> q[x]
              [] x = "t_target" -> IF q["md_tfirst"] = 0 THEN TargetTemp(n)
                                   ELSE Off
              [] OTHER -> Off]

\* check_force
Stopping(force) ==
    IF inp.kind # "fire" THEN {FALSE}
    ELSE IF force = Off THEN BOOLEAN ELSE {force = inp.relaxed}

AfterDump(n) == IF n % inp.restartfreq = 0 THEN "stru" ELSE "next"

\* Mutant: restart files are only written together with a frame.
AfterStepOfFrame(n) == IF n % inp.dumpfreq = 0 THEN "dump" ELSE "next"

AfterStep(n) == IF n % inp.dumpfreq = 0 THEN "dump" ELSE AfterDump(n)

\* Mutant: a restarted run begins with the step after the one saved.
SetupCounting ==
    /\ pc = "setup"
    /\ md_restart => ChainsAccepted
    /\ step_rst_' = IF md_restart THEN MdStep + 1 ELSE 0
    /\ q' = SetUp(Restored, step_rst_')
    /\ stop' \in Stopping(q'["force"])
    /\ pc' = AfterStep(step_rst_')
    /\ UNCHANGED <<inp, md_restart, step_, fileVars, launches, clean>>

Setup ==
    /\ pc = "setup"
    /\ md_restart => ChainsAccepted
    /\ step_rst_' = IF md_restart THEN MdStep ELSE 0
    /\ q' = SetUp(Restored, step_rst_')
    /\ stop' \in Stopping(q'["force"])
    /\ pc' = AfterStep(step_rst_')
    /\ UNCHANGED <<inp, md_restart, step_, fileVars, launches, clean>>

SetupQuits ==
    /\ pc = "setup"
    /\ md_restart /\ ChainsRejected
    /\ step_rst_' = MdStep
    /\ pc' = "quit"
    /\ UNCHANGED <<inp, md_restart, step_, q, stop, fileVars, launches, clean>>

Step ==
    /\ pc = "step"
    /\ q' = Integrated(Now)
    /\ stop' \in Stopping(q'["force"])
    /\ pc' = AfterStep(Now)
    /\ UNCHANGED <<inp, md_restart, step_, step_rst_, fileVars, launches, clean>>

Writes(from, to) ==
    /\ pc = from
    /\ pc' = to
    /\ UNCHANGED <<inp, memVars, launches, clean>>

\* Mutant: every launch begins MD_dump anew.
OpenDumpOfLaunch ==
    /\ Writes("dump", "dump_write")
    /\ dump' = Append(IF step_ = 0 THEN <<>> ELSE dump,
                      [step |-> Now, pos |-> q["pos"], whole |-> FALSE])
    /\ UNCHANGED <<stru, rst>>

\* dump_info: step 0 begins the file anew.
OpenDump ==
    /\ Writes("dump", "dump_write")
    /\ dump' = Append(IF Now = 0 THEN <<>> ELSE dump,
                      [step |-> Now, pos |-> q["pos"], whole |-> FALSE])
    /\ UNCHANGED <<stru, rst>>

WriteDump ==
    /\ Writes("dump_write", AfterDump(Now))
    /\ dump' = [dump EXCEPT ![Len(dump)].whole = TRUE]
    /\ UNCHANGED <<stru, rst>>

\* print_stru_file
OpenStru ==
    /\ Writes("stru", "stru_write")
    /\ stru' = [stru EXCEPT ![Now] = NoStru]
    /\ UNCHANGED <<dump, rst>>

\* Mutant: the velocities written are those this launch began with.
WriteStruOldVel ==
    /\ Writes("stru_write", "rst")
    /\ stru' = [stru EXCEPT ![Now] =
                    [whole |-> TRUE, pos |-> q["pos"], vel |-> step_rst_]]
    /\ UNCHANGED <<dump, rst>>

WriteStru ==
    /\ Writes("stru_write", "rst")
    /\ stru' = [stru EXCEPT ![Now] =
                    [whole |-> TRUE, pos |-> q["pos"], vel |-> q["vel"]]]
    /\ UNCHANGED <<dump, rst>>

\* write_restart
OpenRestart ==
    /\ Writes("rst", "rst_write")
    /\ rst' = [lines |-> 0, step |-> Now, q |-> q]
    /\ UNCHANGED <<dump, stru>>

WriteLine ==
    /\ Writes("rst_write",
              IF rst.lines + 1 = Len(Lines(inp.kind)) THEN "next" ELSE "rst_write")
    /\ rst' = [rst EXCEPT !.lines = @ + 1]
    /\ UNCHANGED <<dump, stru>>

\* Mutant: the steps before a restart are forgotten and md_nstep never reached.
NextStepUnbounded ==
    /\ pc = "next"
    /\ step_' = step_ + 1
    /\ pc' = IF ~stop THEN "step" ELSE "done"
    /\ UNCHANGED <<inp, md_restart, step_rst_, q, stop, fileVars, launches, clean>>

\* Mutant: only steps with a frame are counted.
NextStepOfFrame ==
    /\ pc = "next"
    /\ step_' = IF Now % inp.dumpfreq = 0 THEN step_ + 1 ELSE step_
    /\ pc' = IF Now + 1 <= Nstep /\ ~stop THEN "step" ELSE "done"
    /\ UNCHANGED <<inp, md_restart, step_rst_, q, stop, fileVars, launches, clean>>

NextStep ==
    /\ pc = "next"
    /\ step_' = step_ + 1
    /\ pc' = IF Now + 1 <= Nstep /\ ~stop THEN "step" ELSE "done"
    /\ UNCHANGED <<inp, md_restart, step_rst_, q, stop, fileVars, launches, clean>>

Run == \/ Setup \/ SetupQuits \/ Step
       \/ OpenDump \/ WriteDump
       \/ OpenStru \/ WriteStru
       \/ OpenRestart \/ WriteLine
       \/ NextStep

Next == \/ Launch
        \/ Kill
        \/ Setup
        \/ SetupQuits
        \/ Step
        \/ OpenDump
        \/ WriteDump
        \/ OpenStru
        \/ WriteStru
        \/ OpenRestart
        \/ WriteLine
        \/ NextStep

\* A launched process that is not killed goes on; nobody has to launch it.
Spec == Init /\ [][Next]_vars /\ WF_vars(Run)

-----------------------------------------------------------------------------
(* Properties *)

TypeOK ==
    /\ inp \in Inputs
    /\ pc \in {"setup", "step", "dump", "dump_write", "stru", "stru_write",
               "rst", "rst_write", "next", "done", "killed", "quit"}
    /\ md_restart \in BOOLEAN /\ stop \in BOOLEAN /\ clean \in BOOLEAN
    /\ step_ \in Nat /\ step_rst_ \in 0 .. Nstep
    /\ Now \in 0 .. Nstep + 1
    /\ q \in [Carried(inp.kind) -> Val]
    /\ dump \in Seq([step : 0 .. Nstep, pos : Val, whole : BOOLEAN])
    /\ stru \in [0 .. Nstep -> [whole : BOOLEAN, pos : Val, vel : Val]]
    /\ rst \in [lines : Off .. Len(Lines(inp.kind)), step : 0 .. Nstep,
                q : [Carried(inp.kind) -> Val]]
    /\ launches \in 0 .. MaxLaunches

\* Runs a restart can continue: Langevin draws new random numbers, and NPT
\* computes mass_omega and mass_peta from the target temperature at setup.
Repeatable ==
    /\ inp.kind # "langevin"
    /\ inp.kind = "npt" => Tlast = "T0"

\* Where a kill leaves an incomplete pair of files: while Restart_md.dat is
\* written, and, in a run that has just been restarted, while the structure
\* it was restarted from is written again.
BetweenFiles ==
    pc = "rst_write" \/ (pc = "stru_write" /\ Now = rst.step)

\* A kill outside these places leaves a pair of files of one step with
\* everything the uninterrupted run had at that step (run_md.cpp writes the
\* structure before the Restart_md.dat that names it).
Restartable ==
    clean /\ rst.lines # Off /\ ~BetweenFiles /\ pc \notin {"killed", "quit"} =>
        /\ Complete /\ stru[rst.step].whole
        /\ Repeatable => /\ stru[rst.step].pos = rst.step
                         /\ stru[rst.step].vel = rst.step
                         /\ OnTrack(rst.q, rst.step)

\* However often the run is killed and launched again, every step of it is
\* that of the uninterrupted run: what write_restart saves, what the
\* structure keeps and what setup computes again are together all that the
\* next step reads.
ContinuesRun ==
    clean /\ Repeatable /\ pc \notin {"setup", "killed", "quit", "done"} =>
        OnTrack(q, IF pc = "step" THEN Now - 1 ELSE Now)

\* MD_dump keeps a frame of every dumpfreq-th step the run has reached, and
\* the last one of a step is that of the uninterrupted run, although a kill
\* may cut a frame and a restart writes frames a second time.
FramesKept ==
    clean /\ Repeatable =>
        LET reached == IF pc \in {"stru", "stru_write", "rst", "rst_write", "next"}
                       THEN Now ELSE Now - 1
        IN  \A n \in 0 .. reached :
                n % inp.dumpfreq = 0 =>
                    \E i \in DOMAIN dump :
                        /\ dump[i] = [step |-> n, pos |-> n, whole |-> TRUE]
                        /\ \A j \in i + 1 .. Len(dump) :
                                dump[j].whole => dump[j].step # n

\* A kill outside the places of BetweenFiles costs at most restartfreq steps:
\* the files it leaves can be started from, and are of a step no further back.
\* Before there are files there is only step 0 to lose.
WorkLost ==
    clean /\ ~BetweenFiles /\ pc \notin {"killed", "quit"} =>
        IF rst.lines = Off THEN Now = 0
        ELSE /\ Complete /\ stru[rst.step].whole
             /\ Now - rst.step <= inp.restartfreq

\* A launched run comes to an end unless it is killed: the steps already
\* done before a restart count for md_nstep.
RunEnds == (pc = "setup") ~> (pc \in {"done", "quit", "killed"})

\* The steps md_line works on are those of the abstract trajectory.
Trajectory ==
    INSTANCE MDTrajectory WITH
        now   <- IF pc = "setup" /\ md_restart THEN MdStep ELSE Now,
        saved <- IF rst.lines = Off THEN -1 ELSE MdStep

ImplementsTrajectory == Trajectory!Spec
=============================================================================
