---------------------------- MODULE MCStreamMaps ----------------------------
(* StreamMaps on small command lines: one or two input files, no graph, an *)
(* overlay, a split, and one or two output files with up to three -map     *)
(* options.                                                                *)
EXTENDS StreamMaps

Stream(t, n) == [type |-> t, size |-> n, off |-> FALSE, new |-> TRUE,
                 default |-> FALSE, pic |-> FALSE, fits |-> TRUE]
Late(s)    == [s EXCEPT !.new = FALSE]
Default(s) == [s EXCEPT !.default = TRUE]
Off(s)     == [s EXCEPT !.off = TRUE]
Pic(s)     == [s EXCEPT !.pic = TRUE]
Unfit(s)   == [s EXCEPT !.fits = FALSE]

Voice == <<Stream("a", 1)>>
Film  == <<Stream("s", 1), Stream("v", 4), Default(Stream("v", 2)),
           Stream("a", 2), Unfit(Stream("d", 1))>>
Song  == <<Default(Stream("a", 2)), Default(Pic(Stream("v", 3))),
           Stream("d", 1)>>
Odd   == <<Off(Stream("a", 6)), Default(Late(Stream("v", 0))),
           Late(Stream("v", 3)), Unfit(Stream("s", 1))>>
(* A stream beyond the bonus of the default one, and one without packets.  *)
Large == <<Default(Stream("v", 2)), Stream("v", 14), Stream("a", 1),
           Default(Late(Stream("a", 6)))>>

MCInputs == {<<Voice>>, <<Film>>, <<Film, Song>>, <<Song, Film>>, <<Odd, Film>>,
             <<Film, Film>>, <<Large, Film>>}

In(t)        == [file |-> 0, type |-> t, spec |-> ""]
InOf(f, t)   == [file |-> f, type |-> t, spec |-> t]
AnyOf(f, t)  == [file |-> f, type |-> t, spec |-> ""]
Out1(t, l)   == [type |-> t, label |-> l]
Overlay == [ins |-> <<In("v"), InOf(2, "v")>>, outs |-> <<Out1("v", "")>>]
Twice   == [ins |-> <<InOf(1, "v"), In("v")>>, outs |-> <<Out1("v", "o")>>]
Split   == [ins |-> <<In("a")>>, outs |-> <<Out1("a", "l"), Out1("a", "r")>>]
Subs    == [ins |-> <<AnyOf(1, "v")>>, outs |-> <<Out1("s", "")>>]

MCGraphs ==
  {<<>>, <<Overlay>>, <<Twice>>, <<Split>>, <<Split, Twice>>, <<Subs>>}

Map(f, t)   == [kind |-> "map", file |-> f, spec |-> t, label |-> "",
                optional |-> FALSE]
Maybe(f, t) == [Map(f, t) EXCEPT !.optional = TRUE]
Not(f, t)   == [Map(f, t) EXCEPT !.kind = "not"]
Label(l)    == [Map(0, "") EXCEPT !.kind = "label", !.label = l]

Options1 == {Map(1, ""), Map(2, "a"), Maybe(1, "s"), Not(1, "v"), Not(1, "s"),
             Label("l"), Label("r"), Label("o")}
MapLists == UNION {[1..n -> Options1] : n \in 0..3}

Output(maps, disable, copy, supports, apic) ==
  [maps |-> maps, disable |-> disable, copy |-> copy, supports |-> supports,
   apic |-> apic]
All == {"v", "a", "s", "d"}
MCOutputs ==
  {<<Output(m, {}, c, All, FALSE)>> : m \in MapLists, c \in {{}, {"a"}}}
    \cup {<<Output(m, d, {"v", "a"}, All, FALSE)>> :
           m \in {<<>>, <<Map(1, "")>>}, d \in {{"v"}, {"s", "d"}}}
    \cup {<<Output(<<>>, {}, {}, {"v", "a"}, b)>> : b \in BOOLEAN}
    \cup {<<Output(<<Label("l")>>, {}, {}, All, FALSE),
            Output(m, {}, {}, All, FALSE)>> :
           m \in {<<>>, <<Label("r")>>, <<Label("l")>>, <<Map(1, "")>>}}
=============================================================================
