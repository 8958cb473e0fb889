---------------------------- MODULE Capabilities -----------------------------
(***************************************************************************)
(* What is believed of the terminal, and on what evidence                  *)
(* (src/src/caps.rs): findings inferred from the environment, findings     *)
(* probed by the queries of the bundle, and the identity both feed.        *)
(*                                                                         *)
(* The environment is a function on the variables that are set.  Of a text *)
(* that is searched, the markers it contains are kept; of a colour, a size *)
(* or a set of attributes, that it is a value.                             *)
(***************************************************************************)
EXTENDS Naturals, FiniteSets, SequencesExt

CONSTANT NoValue

ASSUME NoValueAssumption == NoValue \notin BOOLEAN /\ NoValue \notin STRING

\* The first of a list that is wanted, if there is one.
first_of(list, wanted) ==
  LET found == {i \in 1 .. Len(list) : list[i] \in wanted}
  IN IF found = {} THEN NoValue ELSE list[CHOOSE i \in found : \A j \in found : i <= j]

(***************************************************************************)
(* Finding.                                                                *)
(***************************************************************************)
probed(value)   == [value |-> value, evidence |-> "Probed"]
inferred(value) == [value |-> value, evidence |-> "Inferred"]
unknown         == [value |-> NoValue, evidence |-> "Unknown"]

is_known(finding) == finding.value # NoValue

is_set(env, var) == var \in DOMAIN env
is_one_of(env, var, values) == is_set(env, var) /\ env[var] \in values

-----------------------------------------------------------------------------
(***************************************************************************)
(* Identity.  A version text may contain several markers: the first of the *)
(* list counts.  The empty set stands for no report.                       *)
(***************************************************************************)
Markers ==
  << "kitty", "ghostty", "WezTerm", "iTerm2", "Alacritty", "foot", "tmux", "screen", "rio" >>

program_from_xtversion(version) == first_of(Markers, version)

Lookup(table, key) == IF key \in DOMAIN table THEN table[key] ELSE NoValue

program_from_term_program(term_program) ==
  Lookup([ x \in {"iTerm.app", "Apple_Terminal", "vscode", "WezTerm", "ghostty", "tmux", "rio"} |->
             IF x = "iTerm.app" THEN "iTerm2" ELSE x ], term_program)

program_from_term(term) ==
  CASE term = "xterm-kitty" -> "kitty"
    [] term = "alacritty" -> "Alacritty"
    [] term \in {"foot", "foot-extra"} -> "foot"
    [] term \in {"tmux-256color", "tmux"} -> "tmux"
    [] term \in {"screen", "screen-256color"} -> "screen"
    [] OTHER -> NoValue

Multiplexers == [TMUX |-> "tmux", STY |-> "screen", ZELLIJ |-> "zellij"]

\* The first of the candidates that is known.
first_known(candidates) == first_of(candidates, ToSet(candidates) \ {NoValue})

identity_from_env(xtversion, env) ==
  [ program |-> first_known(
      (IF xtversion = {} THEN <<>> ELSE <<program_from_xtversion(xtversion)>>)
        \o (IF is_set(env, "TERM_PROGRAM")
            THEN <<program_from_term_program(env["TERM_PROGRAM"])>> ELSE <<>>)
        \o (IF is_set(env, "TERM") THEN <<program_from_term(env["TERM"])>> ELSE <<>>)),
    version |-> IF xtversion # {} THEN "reported"
                ELSE IF is_set(env, "TERM_PROGRAM_VERSION") THEN "environment" ELSE NoValue,
    mux_stack |-> {Multiplexers[var] : var \in DOMAIN Multiplexers \cap DOMAIN env} ]

-----------------------------------------------------------------------------
(***************************************************************************)
(* What no query can tell.                                                 *)
(***************************************************************************)
HYPERLINK_TERM_PROGRAMS == {"Hyper", "iTerm.app", "WezTerm", "vscode", "ghostty"}
VTE_HYPERLINK_MIN_VERSION == 5000

infer_hyperlinks(env) ==
  IF \/ is_one_of(env, "TERM_PROGRAM", HYPERLINK_TERM_PROGRAMS)
     \/ is_one_of(env, "TERM", {"xterm-kitty", "alacritty"})
     \/ \E var \in {"DOMTERM", "WT_SESSION", "KONSOLE_VERSION"} : is_set(env, var)
     \/ is_set(env, "VTE_VERSION") /\ env["VTE_VERSION"] >= VTE_HYPERLINK_MIN_VERSION
  THEN inferred(TRUE)
  ELSE unknown

infer_truecolor(env) ==
  CASE is_set(env, "NO_COLOR") -> inferred(FALSE)
    [] ~ is_set(env, "NO_COLOR")
         /\ (is_one_of(env, "COLORTERM", {"truecolor", "24bit"}) \/ is_set(env, "FORCE_COLOR"))
         -> inferred(TRUE)
    [] OTHER -> unknown

infer_iterm2_images(identity) ==
  IF identity.program \in {"iTerm2", "WezTerm"} THEN inferred(TRUE) ELSE unknown

(***************************************************************************)
(* A terminal that would echo the queries is not asked.                    *)
(***************************************************************************)
probe_skip_from_env(env) ==
  CASE is_one_of(env, "TERM", {"dumb"}) -> "TermDumb"
    [] is_one_of(env, "TERM", {"linux"}) -> "LinuxConsole"
    [] OTHER -> NoValue

-----------------------------------------------------------------------------
(***************************************************************************)
(* The bundle, in the order of its requests: an expectation, and the field *)
(* its reply fills.                                                        *)
(***************************************************************************)
PROBE_MODES ==
  << [asks |-> "2026", field |-> "synchronized_output"],
     [asks |-> "2027", field |-> "grapheme_clustering"],
     [asks |-> "2048", field |-> "in_band_resize"],
     [asks |-> "2004", field |-> "bracketed_paste"] >>

probe_bundle_commands ==
  << [asks |-> "XtVersion",          field |-> "identity"],
     [asks |-> "KittyKeyboardFlags", field |-> "kitty_keyboard"],
     [asks |-> "KittyGraphics",      field |-> "kitty_graphics"],
     [asks |-> "TextAreaPixels",     field |-> "text_area_pixels"],
     [asks |-> "CellSize",           field |-> "cell_size"],
     [asks |-> "Foreground",         field |-> "foreground_color"],
     [asks |-> "Background",         field |-> "background_color"] >>
    \o PROBE_MODES
    \o << [asks |-> "DA1", field |-> "primary_device_attributes"] >>

fence == "DA1"
ids == {probe.asks : probe \in ToSet(probe_bundle_commands)}
Mode == {probe.asks : probe \in ToSet(PROBE_MODES)}

field_of(expectation) ==
  (CHOOSE probe \in ToSet(probe_bundle_commands) : probe.asks = expectation).field

Fields ==
  {field_of(e) : e \in ids} \cup {"hyperlinks", "truecolor", "iterm2_images", "probe_skip"}

env_seeded_capabilities(env) ==
  LET identity == identity_from_env({}, env)
  IN [ field \in Fields |->
         CASE field = "identity"      -> identity
           [] field = "hyperlinks"    -> infer_hyperlinks(env)
           [] field = "truecolor"     -> infer_truecolor(env)
           [] field = "iterm2_images" -> infer_iterm2_images(identity)
           [] field = "probe_skip"    -> NoValue
           [] OTHER                   -> unknown ]

skipped_capabilities(skip, env) == [env_seeded_capabilities(env) EXCEPT !.probe_skip = skip]

(***************************************************************************)
(* A DECRPM state: 0 not recognised, 1 set, 2 reset, 3 permanently set, 4  *)
(* permanently reset.                                                      *)
(***************************************************************************)
is_enabled(state) ==
  IF state \in {1, 3} THEN TRUE ELSE IF state \in {2, 4} THEN FALSE ELSE NoValue

\* A size of zero is no size.
pixel_size(size) == IF size = "zero" THEN NoValue ELSE size

\* Mutant: what the environment said of images outlives the terminal's own name.
store_without_images(env, capabilities, expectation, reply) ==
  IF expectation = "XtVersion"
  THEN [capabilities EXCEPT !.identity = identity_from_env(reply, env)]
  ELSE [ capabilities EXCEPT ![field_of(expectation)] =
           probed(CASE expectation \in Mode -> is_enabled(reply)
                    [] expectation \in {"TextAreaPixels", "CellSize"} -> pixel_size(reply)
                    [] OTHER -> reply) ]

store_bundle_reply(env, capabilities, expectation, reply) ==
  LET identity == identity_from_env(reply, env)
      value == CASE expectation \in Mode -> is_enabled(reply)
                 [] expectation \in {"TextAreaPixels", "CellSize"} -> pixel_size(reply)
                 [] OTHER -> reply
  IN IF expectation = "XtVersion"
     THEN [ capabilities EXCEPT !.identity = identity,
                                !.iterm2_images = infer_iterm2_images(identity) ]
     ELSE [ capabilities EXCEPT ![field_of(expectation)] = probed(value) ]

=============================================================================
