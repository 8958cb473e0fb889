--------------------------- MODULE CapabilityProbe ---------------------------
(***************************************************************************)
(* Asking a terminal what it can do, and acting on it:                     *)
(* probe_capabilities and synchronized of TokioTerminalSession             *)
(* (src/src/tokio_session.rs), over the findings of caps.rs.               *)
(*                                                                         *)
(* The matching of replies is that of TokioQueryDriver; here an event on   *)
(* its way or buffered is a reply with the probe that asked for it, which  *)
(* the session cannot see.  The terminal answers in any order, as a        *)
(* multiplexer that answers some queries itself does.                      *)
(***************************************************************************)
EXTENDS Capabilities

CONSTANTS
  Environments, \* environments the program may be started in
  Terminals,    \* terminals: the reply of each query that is answered
  MaxProbes,    \* bound: probes
  MaxBatch,     \* bound: replies decoded from one read
  MaxFrames     \* bound: frames begun

ASSUME TerminalsAssumption ==
  \A t \in Terminals :
    /\ DOMAIN t \subseteq ids
    /\ \A mode \in Mode \cap DOMAIN t : t[mode] \in 0 .. 4
    /\ \A e \in {"TextAreaPixels", "CellSize"} \cap DOMAIN t : t[e] \in {"zero", "size"}

ASSUME BoundsAssumption == MaxProbes \in Nat /\ MaxBatch \in Nat /\ MaxFrames \in Nat

VARIABLES
  env, terminal,
  asked,        \* a probe has been written to the terminal
  wire,         \* replies on their way or buffered
  outstanding,  \* expectations registered
  probing,      \* a probe is in flight
  gathering,    \* what it has found so far, or NoValue
  got,          \* the expectations it has had a reply for
  probes,
  snapshot,     \* the session's stored capabilities, or NoValue
  basis,        \* the replies the snapshot rests on
  frames,       \* synchronized calls in progress, outermost first: gated or not
  begun,        \* frames begun
  updating,     \* mode 2026 is set in the terminal
  cut_short     \* a frame was dropped, or its end could not be written

world   == <<env, terminal>>
probe   == <<outstanding, probing, gathering, got, probes>>
results == <<snapshot, basis>>
drawing == <<frames, begun, updating, cut_short>>
vars    == <<world, asked, wire, probe, results, drawing>>

Init ==
  /\ env \in Environments /\ terminal \in Terminals
  /\ asked = FALSE /\ wire = {}
  /\ outstanding = {} /\ probing = FALSE
  /\ gathering = NoValue /\ got = {} /\ probes = 0
  /\ snapshot = NoValue /\ basis = {}
  /\ frames = <<>> /\ begun = 0 /\ updating = FALSE /\ cut_short = FALSE

-----------------------------------------------------------------------------
(***************************************************************************)
(* probe_capabilities: a dumb terminal is not asked, and the snapshot says *)
(* so.  Otherwise what an earlier probe left registered is swept, and the  *)
(* whole bundle registered and written.                                    *)
(***************************************************************************)
SkipProbe ==
  /\ ~ probing /\ probes < MaxProbes
  /\ probe_skip_from_env(env) # NoValue
  /\ probes' = probes + 1
  /\ snapshot' = skipped_capabilities(probe_skip_from_env(env), env) /\ basis' = {}
  /\ UNCHANGED << world, asked, wire, outstanding, probing, gathering, got, drawing >>

StartProbe ==
  /\ ~ probing /\ probes < MaxProbes
  /\ probe_skip_from_env(env) = NoValue
  /\ probing' = TRUE /\ probes' = probes + 1
  /\ outstanding' = ids
  /\ asked' = TRUE
  /\ wire' = wire \cup {[to |-> e, probe |-> probes] : e \in DOMAIN terminal}
  /\ gathering' = env_seeded_capabilities(env) /\ got' = {}
  /\ UNCHANGED <<world, results, drawing>>

(***************************************************************************)
(* feed_batch_into_bundle.  A reply whose expectation has had one passes   *)
(* through as an event.  The fence acts when the batch has been fed.       *)
(***************************************************************************)
fed(acc, reply) ==
  IF reply.to \notin acc.outstanding THEN acc
  ELSE [ outstanding |-> acc.outstanding \ {reply.to},
         found |-> store_bundle_reply(env, acc.found, reply.to, terminal[reply.to]) ]

\* Mutant: the fence acts on the spot (FM-Q7).
stored_up_to_fence(batch) ==
  LET after[n \in 0 .. Len(batch)] ==
        IF n = 0 THEN [outstanding |-> outstanding, found |-> gathering]
        ELSE IF fence \in after[n - 1].outstanding THEN fed(after[n - 1], batch[n])
        ELSE after[n - 1]
  IN after[Len(batch)]

stored(batch) ==
  LET after[n \in 0 .. Len(batch)] ==
        IF n = 0 THEN [outstanding |-> outstanding, found |-> gathering]
        ELSE fed(after[n - 1], batch[n])
  IN after[Len(batch)]

\* The probe is over: what has not been answered is forgotten.
Forget == probing' = FALSE /\ outstanding' = {} /\ gathering' = NoValue /\ got' = {}

Finish(found, heard) == Forget /\ snapshot' = found /\ basis' = heard

ReadBatch ==
  /\ probing
  /\ \E size \in 1 .. MaxBatch : \E batch \in [1 .. size -> wire] :
       LET result == stored(batch)
           heard == got \cup {reply.to : reply \in ToSet(batch)}
           fenced == fence \notin result.outstanding
       IN /\ IsInjective(batch)
          /\ wire' = wire \ ToSet(batch)
          /\ IF fenced
             THEN Finish(result.found, heard)
             ELSE /\ gathering' = result.found /\ got' = heard
                  /\ outstanding' = result.outstanding
                  /\ UNCHANGED <<probing, results>>
  /\ UNCHANGED <<world, asked, probes, drawing>>

\* The deadline, or the end of input: what was gathered counts.
ProbeTimesOut ==
  /\ probing
  /\ Finish(gathering, got)
  /\ UNCHANGED <<world, asked, wire, probes, drawing>>

\* A read error ends the probe without a result.
ProbeFails ==
  /\ probing
  /\ Forget
  /\ UNCHANGED <<world, asked, wire, probes, results, drawing>>

\* The future is dropped: the next query or probe sweeps its expectations.
DropProbe ==
  /\ probing
  /\ probing' = FALSE /\ gathering' = NoValue /\ got' = {}
  /\ UNCHANGED <<world, asked, wire, outstanding, probes, results, drawing>>

\* next_event delivers a late reply, or an abandoned expectation takes it.
NextEvent ==
  /\ ~ probing
  /\ \E reply \in wire :
       /\ wire' = wire \ {reply}
       /\ outstanding' = outstanding \ {reply.to}
  /\ UNCHANGED <<world, asked, probing, gathering, got, probes, results, drawing>>

-----------------------------------------------------------------------------
(***************************************************************************)
(* synchronized: the gate is read once, before the frame.  The frame may   *)
(* itself draw synchronized frames and probe.                              *)
(***************************************************************************)
synchronized_output == snapshot # NoValue /\ snapshot.synchronized_output.value = TRUE

BeginFrame ==
  /\ ~ probing /\ begun < MaxFrames
  /\ begun' = begun + 1
  /\ frames' = Append(frames, synchronized_output)
  /\ updating' = (updating \/ synchronized_output)
  /\ UNCHANGED <<world, asked, wire, probe, results, cut_short>>

\* The write of the begin fails, or its future is dropped: the terminal has it or not.
BeginFails ==
  /\ ~ probing /\ begun < MaxFrames
  /\ synchronized_output
  /\ begun' = begun + 1
  /\ updating' \in {updating, TRUE} /\ cut_short' = TRUE
  /\ UNCHANGED <<world, asked, wire, probe, results, frames>>

\* Mutant: the gate is read again after the frame.
EndFrame_regated ==
  /\ ~ probing /\ frames # <<>>
  /\ frames' = Front(frames)
  /\ updating' = (updating /\ ~ synchronized_output)
  /\ UNCHANGED <<world, asked, wire, probe, results, begun, cut_short>>

EndFrame ==
  /\ ~ probing /\ frames # <<>>
  /\ frames' = Front(frames)
  /\ \/ updating' = (updating /\ ~ Last(frames)) /\ UNCHANGED cut_short
     \/ Last(frames) /\ UNCHANGED updating /\ cut_short' = TRUE
  /\ UNCHANGED <<world, asked, wire, probe, results, begun>>

\* The future of the outermost frame is dropped, with a probe inside it.
DropFrames ==
  /\ frames # <<>>
  /\ frames' = <<>> /\ cut_short' = (cut_short \/ updating)
  /\ probing' = FALSE /\ gathering' = NoValue /\ got' = {}
  /\ UNCHANGED <<world, asked, wire, outstanding, probes, results, begun, updating>>

-----------------------------------------------------------------------------
Next ==
  \/ SkipProbe \/ StartProbe \/ ReadBatch \/ ProbeTimesOut \/ ProbeFails \/ DropProbe
  \/ NextEvent
  \/ BeginFrame \/ BeginFails \/ EndFrame \/ DropFrames

Spec == Init /\ [][Next]_vars

-----------------------------------------------------------------------------
TypeOK ==
  /\ asked \in BOOLEAN /\ probing \in BOOLEAN /\ updating \in BOOLEAN /\ cut_short \in BOOLEAN
  /\ outstanding \subseteq ids /\ got \subseteq ids /\ basis \subseteq ids
  /\ wire \subseteq [to : ids, probe : 0 .. MaxProbes]
  /\ probes \in 0 .. MaxProbes /\ begun \in 0 .. MaxFrames
  /\ frames \in Seq(BOOLEAN)

(***************************************************************************)
(* A snapshot says of each query what the terminal answered, if an answer  *)
(* was read while the probe listened, in whatever order and batch it came  *)
(* and whichever probe it was asked by; otherwise the query's field is     *)
(* unknown.  A mode that is not recognised was answered, and its value is  *)
(* unknown (FM-C4); so is a size of zero (FM-Z5).  A terminal that is not  *)
(* asked has said nothing.                                                 *)
(***************************************************************************)
believed(expectation, value) ==
  IF expectation \in basis THEN probed(value) ELSE unknown

mode_value(mode) ==
  CASE terminal[mode] = 0 -> NoValue [] terminal[mode] \in {1, 3} -> TRUE [] OTHER -> FALSE

SnapshotIsHonest ==
  snapshot # NoValue =>
    /\ snapshot.synchronized_output = believed("2026", mode_value("2026"))
    /\ snapshot.grapheme_clustering = believed("2027", mode_value("2027"))
    /\ snapshot.in_band_resize = believed("2048", mode_value("2048"))
    /\ snapshot.bracketed_paste = believed("2004", mode_value("2004"))
    /\ snapshot.kitty_keyboard = believed("KittyKeyboardFlags", terminal["KittyKeyboardFlags"])
    /\ snapshot.kitty_graphics = believed("KittyGraphics", terminal["KittyGraphics"])
    /\ snapshot.foreground_color = believed("Foreground", terminal["Foreground"])
    /\ snapshot.background_color = believed("Background", terminal["Background"])
    /\ snapshot.cell_size =
         believed("CellSize", IF terminal["CellSize"] = "zero" THEN NoValue ELSE "size")
    /\ snapshot.text_area_pixels =
         believed("TextAreaPixels", IF terminal["TextAreaPixels"] = "zero" THEN NoValue ELSE "size")
    /\ (snapshot.probe_skip # NoValue) <=> (probe_skip_from_env(env) # NoValue)
    /\ snapshot.probe_skip # NoValue => basis = {} /\ ~ asked

(***************************************************************************)
(* Images are believed in only on the name of a terminal that shows them:  *)
(* its own, when it has told one that is known, and then whatever the      *)
(* environment says; a multiplexer that answers for itself leaves them     *)
(* unknown (FM-C3).                                                        *)
(***************************************************************************)
ImagesFollowTheName ==
  snapshot # NoValue /\ "XtVersion" \in basis
      /\ program_from_xtversion(terminal["XtVersion"]) # NoValue =>
    (snapshot.iterm2_images = inferred(TRUE)
      <=> program_from_xtversion(terminal["XtVersion"]) \in {"iTerm2", "WezTerm"})

(***************************************************************************)
(* Outside all frames the terminal is not left waiting for the end of one, *)
(* whatever was probed inside a frame and however frames were nested,      *)
(* unless a frame was dropped or a write of its begin or end failed; and   *)
(* mode 2026 is set only in a terminal that said it has it on (FM-V4).     *)
(***************************************************************************)
FramesArePaired ==
  /\ frames = <<>> => ~ updating \/ cut_short
  /\ updating => asked /\ mode_value("2026") = TRUE

=============================================================================
