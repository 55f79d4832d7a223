-------------------------------- MODULE MCVm ---------------------------------
(* Instances of Vm for TLC: two page tables, the first of which holds the  *)
(* address 0.                                                              *)
EXTENDS Vm

MCVas == {"va0", "va1"}
MCPdxs == {"d0", "d1"}
MCPDX == [va \in MCVas |-> IF va = "va0" THEN "d0" ELSE "d1"]

(* Programs that manage their own memory and that of their children, and   *)
(* programs that send each other pages, one of which may name a wrong      *)
(* environment.                                                            *)
MCPrograms ==
  {[calls |-> {"page_alloc", "page_map", "page_unmap", "exofork"},
    liberties |-> {}],
   [calls |-> {"page_alloc", "exofork", "ipc"}, liberties |-> {"badenv"}]}

(* Programs that only exchange pages.                                     *)
MCMessages == {[calls |-> {"page_alloc", "exofork", "ipc"}, liberties |-> {}]}

(* No action and no property of a state reads err or env_ipc_perm, so that *)
(* states which differ only there have the same future.  The properties of *)
(* these variables are action properties of their new values, which TLC    *)
(* evaluates on every step.                                                *)
MCView ==
  <<program, mem, env_parent, env_ipc_recving, env_ipc_dstva, freeing, asked,
    lost>>
=============================================================================
