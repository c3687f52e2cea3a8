------------------------------ MODULE Exemplos ------------------------------
(***************************************************************************)
(* The example programs on processes and pipes, as programs of module      *)
(* Programs; the calls of Linux they make do what those of xv6 do.  A      *)
(* dup2 to a descriptor just closed is a dup, as the lower ones are open.  *)
(***************************************************************************)
EXTENDS Programs

CONSTANTS NP, VAL    \* processes in the ring of processo_n_pipe, the last value

(* processo_n_pipe: pipe i has its ends in the variables R[i], W[i]. *)
R == <<"r1", "r2", "r3", "r4", "r5">>
W == <<"w1", "w2", "w3", "w4", "w5">>

filho(np) ==
  LET antes == IF np = 1 THEN NP ELSE np - 1
      fecha(i) == (IF i # np THEN <<close(W[i])>> ELSE <<>>) \o (IF i # antes THEN <<close(R[i])>> ELSE <<>>)
  IN  FlattenSeq([i \in 1..NP |-> fecha(i)])
      \o (IF np = 1 THEN <<write(W[np], <<1>>, "any")>> ELSE <<>>)
      \o <<copy(R[antes], W[np], 1, VAL), close(W[np]), close(R[antes]), exit>>

processo_n_pipe ==
  [np \in 1..NP |-> pipe(R[np], W[np], "ok")]
  \o [np \in 1..NP |-> fork("proc", filho(np), "ok")]
  \o <<wait("ok"), exit>>

(* pipe_04: cat | grep, whose output goes to a pipe that is never read. *)
pipe_04 ==
  LET fecha == <<close("r0"), close("w0"), close("r1"), close("w1")>> IN
  <<pipe("r0", "w0", "ok"), pipe("r1", "w1", "ok"),
    fork("pid", <<close("stdin"), dup("r1"), close("stdout"), dup("w0")>> \o fecha
                \o <<exec(<<"grep">>, 2, <<copy("stdin", "stdout", 0, ""), exit>>), exit>>, "need"),
    fork("pid", <<close("stdout"), dup("w1")>> \o fecha
                \o <<exec(<<"cat">>, 2, <<write("stdout", <<"h", "o", "m", "e">>, "any"), exit>>), exit>>, "need"),
    wait("ok"), exit>>

(* pipe_ls_wc: the parent shows what one read of the pipe gives. *)
pipe_ls_wc ==
  <<pipe("r", "w", "ok"),
    fork("pid", <<close("r"), write("w", <<"A", "L", "O">>, "any"), exit>>, "need"),
    close("w"), [read("r", 2, 0, "any") EXCEPT !.w = "any"], exit>>

(* pipe_dup_fork: its dup calls are commented out, so wc has no input and ls no pipe. *)
pipe_dup_fork ==
  <<pipe("r", "w", "ok"),
    fork("pid", <<close("stdin"), close("w"), close("r"),
                  exec(<<"wc">>, 1, <<copy("stdin", "stdout", 0, ""), exit>>), exit>>, "need"),
    fork("pid", <<close("r"), close("w"),
                  exec(<<"ls">>, 2, <<write("stdout", <<"l", "s">>, "any"), exit>>), exit>>, "need"),
    exit>>

(* What each shows on the console in the end. *)
Resultados == {<<processo_n_pipe, <<>>>>, <<pipe_04, <<>>>>, <<pipe_ls_wc, <<>>>>, <<pipe_dup_fork, <<"l", "s">>>>}
=============================================================================
