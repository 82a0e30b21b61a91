---------------------------- MODULE MCRunMemory ----------------------------
(* Model values and bounds of the run of RunMemory. *)
EXTENDS RunMemory

\* The arrival's text has a thread, the first action's text meets it, the
\* later texts meet the handlers; in the other cases patches and beats do.
SmallTexts ==
  {<<{"thread", "facts"}, {"know", "thread"}, {}, {}>>,
   <<{"beats"}, {"thread", "beats"}, {}, {}>>,
   <<{"patch"}, {"patch", "beats"}, {"patch"}, {}>>}
=============================================================================
