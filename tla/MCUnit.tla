-------------------------------- MODULE MCUnit ------------------------------
(***************************************************************************)
(* Every source of up to MaxStmts declarations, heads and statements, with *)
(* tables and queues that a few of them fill, under a few command lines.   *)
(***************************************************************************)
EXTENDS Unit

CONSTANTS x, y, f

\* The names are told apart and no more: their searches begin at one slot.
Symmetry == Permutations(Names)

hash_MC == [n \in Names \cup Library |-> 3]

Plain(kw) == [kw |-> kw, tag |-> "", body |-> <<>>]
Record(kw, tag) == [kw |-> kw, tag |-> tag, body |-> <<>>]

Var(n) == [name |-> n, stars |-> 0, dims |-> <<>>, fn |-> FALSE, init |-> <<>>]
Ptr(k, n) == [Var(n) EXCEPT !.stars = k]
Arr(dims, n) == [Var(n) EXCEPT !.dims = dims]
Num == [str |-> FALSE, n |-> 0]
Text(k) == [str |-> TRUE, n |-> k]

\* struct s { char c; struct s *p; char m[3][3]; } and union u { char b[3]; int w; }.
S == [kw |-> "struct", tag |-> "s",
      body |-> << <<[spec |-> Plain("char"), of |-> <<Var("c")>>],
                    [spec |-> Record("struct", "s"), of |-> <<Ptr(1, "p")>>],
                    [spec |-> Plain("char"), of |-> <<Arr(<<3, 3>>, "m")>>]>> >>]
U == [kw |-> "union", tag |-> "u",
      body |-> << <<[spec |-> Plain("char"), of |-> <<Arr(<<3>>, "b")>>],
                    [spec |-> Plain("int"), of |-> <<Var("w")>>]>> >>]

Object(spec, v) == [class |-> "static", spec |-> spec, of |-> <<v>>]

Globals_MC ==
    UNION {{Object(Plain("char"), Var(n)), Object(Plain("int"), [Arr(<<3>>, n) EXCEPT !.init = <<Num, Num>>]),
            Object(Plain("char"), [Ptr(1, n) EXCEPT !.init = <<Text(2)>>]),
            Object(Plain("char"), Arr(<<2, 4>>, n)), Object(Plain("int"), Arr(<<3, 2>>, n)),
            Object(S, Arr(<<2>>, n)), Object(U, Ptr(2, n)), Object(Record("struct", "s"), Ptr(1, n)),
            [class |-> "extern", spec |-> Plain("int"), of |-> <<Var(n)>>]} : n \in Names}

Head0(n, args, types) == [name |-> n, args |-> args, types |-> types]

Heads_MC ==
    UNION {{Head0(n, <<>>, <<>>)} : n \in Names}
    \cup {Head0(x, <<x, y>>, <<[spec |-> Plain("char"), of |-> <<Ptr(1, y), Var(x)>>]>>),
          Head0(y, <<y, x>>, <<[spec |-> Plain("char"), of |-> <<Ptr(1, x), Var(y)>>]>>)}

Locals_MC == {[spec |-> Plain("char"), of |-> Arr(<<3>>, "")], [spec |-> Plain("int"), of |-> Var("")],
              [spec |-> Plain("int"), of |-> Arr(<<2, 2>>, "")]}

File(stem, ext) == [kind |-> "file", name |-> [stem |-> stem, ext |-> ext]]
Commands_MC ==
    {<<File("A", "")>>, <<File("A", ".A99")>>, <<File("LONG", "")>>,
     <<[kind |-> "switch"], File("A", ".C"), File("A", "")>>, <<File("A", ".C"), File("A", ".C")>>,
     <<[kind |-> "help"], File("A", "")>>, <<>>}
length_MC == [s \in {"A", "LONG", "", ".C", ".A99"} |->
                CASE s = "A" -> 1 [] s = "LONG" -> 12 [] s = "" -> 0 [] s = ".C" -> 2 [] OTHER -> 4]
=============================================================================
