-------------------------- MODULE MCCapabilityProbe --------------------------
(***************************************************************************)
(* Environments that name a terminal, hide one behind a multiplexer, or    *)
(* forbid the probe; terminals that answer the fence and a few queries, in *)
(* each way a query can be answered.                                       *)
(***************************************************************************)
EXTENDS CapabilityProbe, TLC

MCEnvironments ==
  { "TERM" :> "dumb",
    ("TERM_PROGRAM" :> "WezTerm") @@ ("TERM" :> "screen") @@ ("TMUX" :> "1")
      @@ ("NO_COLOR" :> "1") @@ ("COLORTERM" :> "24bit"),
    ("TERM_PROGRAM" :> "tmux") @@ ("TERM" :> "xterm-kitty")
      @@ ("FORCE_COLOR" :> "1") @@ ("VTE_VERSION" :> 5000) }

Answers(e) ==
  CASE e = "XtVersion" -> { {"tmux"}, {"iTerm2"}, {"Zellij"}, {"kitty", "foot"} }
    [] e \in {"TextAreaPixels", "CellSize"} -> {"zero", "size"}
    [] e = "KittyGraphics" -> BOOLEAN
    [] e = "2026" -> 0 .. 4
    [] e \in Mode \ {"2026"} -> {0, 1}
    [] OTHER -> {"value"}

Replies(S) == { <<>> } \cup UNION { { e :> answer : answer \in Answers(e) } : e \in S }

MCTerminals ==
  { (fence :> "value") @@ name @@ other :
      name \in Replies({"XtVersion"}), other \in Replies(ids \ {fence}) }

=============================================================================
