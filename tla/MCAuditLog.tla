----------------------------- MODULE MCAuditLog -----------------------------
(***************************************************************************)
(* AuditLog on a small instance.  Threads and inodes are interchangeable.  *)
(***************************************************************************)
EXTENDS AuditLog, TLC

Symmetric == Permutations(Thread) \cup Permutations(Inode)

=============================================================================
