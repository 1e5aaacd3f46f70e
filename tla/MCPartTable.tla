---------------------------- MODULE MCPartTable ----------------------------
(* Instances of PartTable for TLC.  One sector is the unit, a block is two, *)
(* a MB four, the GPT takes eight.  Lists have up to three lines.          *)
EXTENDS PartTable

MCLine(size, at, name) ==
  [rest |-> FALSE, size |-> size, at |-> at, int |-> FALSE,
   enhanced |-> FALSE, name |-> name, hidden |-> FALSE]

Enhance(line) == [line EXCEPT !.enhanced = TRUE]
Hide(line) == [line EXCEPT !.hidden = TRUE]
InInt(line) == [line EXCEPT !.int = TRUE]
RestLine(name) == [MCLine(0, 0, name) EXCEPT !.rest = TRUE]

ListsUpTo(n, S) == UNION {[1..k -> S] : k \in 0..n}

MCBegins == [n \in {"boot", "boot2", "misc", "preboot"} |->
               IF n = "boot" THEN {"boot", "boot2"} ELSE {n}]

\* Sizes that fit, nearly fill and exceed the flash; odd blocks to halve;
\* offsets that are taken, free and out of order; a hidden line.
MCPlain ==
  {MCLine(2, 0, "boot"), MCLine(12, 0, "misc"), MCLine(3, 0, "misc"),
   MCLine(10, 24, "boot"), MCLine(4, 6, "misc"), Hide(MCLine(4, 0, "boot2")),
   MCLine(4, 0, "preboot"), RestLine("misc")}
MCEnhanced ==
  {Enhance(MCLine(12, 0, "boot")), Enhance(MCLine(6, 12, "boot")), Enhance(RestLine("misc"))}

MCEmmcTables == ListsUpTo(3, MCPlain \cup MCEnhanced)
MCHalfTables ==
  ListsUpTo(3, {MCLine(2, 0, "boot2"), MCLine(12, 0, "misc"), MCLine(50, 0, "misc"),
                RestLine("misc")} \cup MCEnhanced)

\* An int is at most 15 here: 16 wraps to -16.
MCNandLines ==
  {MCLine(2, 0, "boot"), MCLine(8, 0, "boot2"), InInt(MCLine(16, 0, "misc")),
   Hide(MCLine(4, 0, "boot")), Hide(MCLine(2, 0, "boot2")), MCLine(4, 12, "misc"),
   RestLine("misc")}
MCNandTables == ListsUpTo(4, MCNandLines)

\* Two eMMC flashes and a NAND flash, told apart by their sizes.
MCGpt == {41, 44}
MCFlashes == MCGpt \cup {24}
MCTables == [f \in MCFlashes |-> IF f \in MCGpt THEN MCEmmcTables ELSE MCNandTables]
MCHalf == [f \in {44} |-> MCHalfTables]
=============================================================================
