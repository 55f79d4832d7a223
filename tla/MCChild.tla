------------------------------- MODULE MCChild -------------------------------
(* Instances of Child for TLC: a program with read-only text in its file   *)
(* and data that starts as zeroes.                                         *)
EXTENDS Child, TLC

(* sys_exofork may take any free environment, so that the environments     *)
(* other than the first are alike.                                         *)
MCSymmetry == Permutations(Envs \ {First})

MCSegments == << [page |-> "text", perm |-> "ro", file |-> TRUE],
                 [page |-> "data", perm |-> "w", file |-> FALSE] >>
MCImage == [v \in {"text", "data", "stack"} |-> IF v = "data" THEN 0 ELSE 1]

(* The names of frames do not matter, nor what a free frame holds: only    *)
(* which entries have the same frame, and its content.                     *)
MCView ==
  <<procVars, mem, shm,
    [q \in Envs \X AllPages |->
       LET p == pt[q[1]][q[2]]
       IN  IF p.frame \in Frames
           THEN <<p.perm, content[p.frame],
                  {r \in Envs \X AllPages : pt[r[1]][r[2]].frame = p.frame}>>
           ELSE p.perm]>>
=============================================================================
