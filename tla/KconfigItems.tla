----------------------------- MODULE KconfigItems -----------------------------
(* The items of a Kconfig and the user values they may have been given:      *)
(* Symbol.user_value (val), Choice.user_value (mode) and                     *)
(* Choice.user_selection (sel), as kconfiglib.py keeps them.                 *)

CONSTANTS
    Symbols,    \* the defined symbols
    ChoiceSet,  \* the choices
    Modules,    \* the symbol MODULES
    ChoiceOf,   \* the choice of a symbol, or NoValue
    Accepts,    \* the user values an item accepts
    NoValue     \* None

Items == Symbols \cup ChoiceSet

Blank == [val |-> [s \in Symbols |-> NoValue],
          mode |-> [c \in ChoiceSet |-> NoValue],
          sel |-> [c \in ChoiceSet |-> NoValue]]

UserValues == {NoValue} \cup UNION {Accepts[i] : i \in Items}

(* Symbol.user_value, Choice.user_value (its mode) and Choice.user_selection *)
Users == {u \in [val : [Symbols -> UserValues], mode : [ChoiceSet -> UserValues],
                 sel : [ChoiceSet -> Symbols \cup {NoValue}]] :
    /\ \A s \in Symbols : u.val[s] \in Accepts[s] \cup {NoValue}
    /\ \A c \in ChoiceSet :
          /\ u.mode[c] \in Accepts[c] \cup {NoValue}
          /\ u.sel[c] # NoValue => ChoiceOf[u.sel[c]] = c /\ 2 \in Accepts[u.sel[c]]}

-----------------------------------------------------------------------------
(* User values: Symbol.set_value, Choice.set_value *)

Give(u, s, v) ==
    IF v \notin Accepts[s] THEN u
    ELSE IF ChoiceOf[s] # NoValue /\ v = 2
         THEN [u EXCEPT !.val[s] = v, !.sel[ChoiceOf[s]] = s]
    ELSE [u EXCEPT !.val[s] = v]

GiveMode(u, c, v) == IF v \in Accepts[c] THEN [u EXCEPT !.mode[c] = v] ELSE u
=============================================================================
