----------------------------- MODULE MCSystemInfo -----------------------------
(***************************************************************************)
(* Two digits, 0 and 7, and small files for SystemInfo.                    *)
(***************************************************************************)
EXTENDS SystemInfo

TwoDigits == [c \in {"0", "7"} |-> IF c = "0" THEN 0 ELSE 7]

\* /proc/meminfo in the kernel's order, with and without swap.
WithSwap == << <<"MemTotal", 100>>, <<"MemFree", 20>>, <<"Buffers", 5>>,
               <<"Cached", 30>>, <<"SwapCached", 4>>, <<"Active", 50>>,
               <<"SwapTotal", 40>>, <<"SwapFree", 10>> >>
WithoutSwap == SubSeq(WithSwap, 1, 4)

\* All in the memory is B2G's but for -1 kB; no sizes could be read.
TwoSums == {42, -2}

\* One file has any short text, or the lists differ in length.
Texts(n) == UNION {[1..k -> Chars] : k \in 0..n}
Setting(t, a, m) ==
  [f \in Params |-> CASE f = "notify_trigger" -> t [] f = "adj" -> a
                      [] f = "minfree" -> m]
Lists == {<<>>, <<"7", "7", ",", "7">>, <<"7", ",", "-", ",", "0">>,
          <<"7", "0", "7", ",", "7", " ">>, <<"7", ",", "7", ",">>}
SmallStarts ==
  {<<Setting(t, <<"0">>, <<"7">>), WithoutSwap>> : t \in Texts(4)}
    \cup {<<Setting(<<"7", " ">>, a, m), WithSwap>> : a, m \in Lists}
NewLists == {<<"0", ",", "7">>}
=============================================================================
