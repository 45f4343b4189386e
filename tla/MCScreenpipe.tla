----------------------------- MODULE MCScreenpipe -----------------------------
(***************************************************************************)
(* Three frames: one with both texts and times far apart, one with a text  *)
(* too long to keep that was captured earlier than its predecessor, one    *)
(* without text.  All have OCR rows, one more than a search may return: it *)
(* depends on the row that stored the first frame whether they fit.        *)
(***************************************************************************)
EXTENDS Screenpipe

MCRows ==
  {[id |-> 1, source |-> "accessibility", at |-> 5, text |-> "a"],
   [id |-> 1, source |-> "ocr", at |-> 1, text |-> "b"],
   [id |-> 2, source |-> "ocr", at |-> 4, text |-> "long"],
   [id |-> 3, source |-> "ocr", at |-> 5, text |-> "none"]}
=============================================================================
