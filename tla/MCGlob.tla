------------------------------- MODULE MCGlob -------------------------------
(***************************************************************************)
(* Instances of Glob for TLC: every form of item over the bytes *, -, a to *)
(* c, in every order.                                                      *)
(***************************************************************************)
EXTENDS Glob

a == 97
b == 98
c == 99

MCBytes == {Star, Dash, a, b, c}

Item(spell, bytes) == [spell |-> spell, star |-> FALSE, bytes |-> bytes]

MCItems ==
    {[spell |-> <<Star>>, star |-> TRUE, bytes |-> {}],
     Item(<<Quest>>, MCBytes),
     Item(<<a>>, {a}),
     Item(<<Dash>>, {Dash}),
     Item(<<Close>>, {Close}),
     Item(<<Escape, Star>>, {Star}),
     Item(<<Open, a, c, Close>>, {a, c}),
     Item(<<Open, a, Dash, c, Close>>, {a, b, c}),
     Item(<<Open, c, Dash, a, Dash, Close>>, {Dash}),
     Item(<<Open, a, Dash, b, Dash, c, Close>>, {a, b, c, Dash}),
     Item(<<Open, Caret, a, Dash, Close>>, MCBytes \ {a, Dash}),
     Item(<<Open, Caret, Close>>, MCBytes),
     Item(<<Open, Close>>, {})}

MCTails == {<<Open>>, <<Open, Caret, a>>, <<Escape>>}

\* Names up to two bytes, and longer ones.
MCDatabases ==
    {<<<< >>, <<Star>>, <<Dash>>, <<a>>, <<a, a>>, <<a, b>>, <<a, c, a, a>>, <<b, Dash>>>>,
     <<<<b, Star, a>>, <<b, b, a>>, <<c>>>>, << >>}
=============================================================================
