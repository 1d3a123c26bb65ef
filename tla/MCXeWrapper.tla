---------------------------- MODULE MCXeWrapper ----------------------------
(* Model-checking instance of XeWrapper, which contains VdiCopy.           *)
EXTENDS XeWrapper
=============================================================================
