----------------------------- MODULE MCHttpServer -----------------------------
(* Requests without a body, with one that is told and with one that is     *)
(* not, and one whose header alone takes more reads than MaxReads; a       *)
(* configuration file cannot write records.                                *)
EXTENDS HttpServer

AnyRequest ==
  {[head |-> 1, body |-> 0, told |-> 0], [head |-> 3, body |-> 0, told |-> 0],
   [head |-> 1, body |-> 2, told |-> 2], [head |-> 1, body |-> 2, told |-> 0]}
=============================================================================
