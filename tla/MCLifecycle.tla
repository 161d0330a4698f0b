---------------------------- MODULE MCLifecycle -----------------------------
(***************************************************************************)
(* Instances of Lifecycle.  Requests has what the properties turn on: a    *)
(* POST whose body is missing, one to an endpoint that fills the buffer    *)
(* behind an empty line, and a request with more header lines than the     *)
(* parser takes, which does not fit.  RequestKinds has one of each kind    *)
(* the code tells apart, those the parser refuses included: at the first   *)
(* byte, in the headers, or for a lone carriage return.                    *)
(***************************************************************************)
EXTENDS Lifecycle

Requests ==
  {<<"POST", "/", "end">>,
   <<"end", "POST", "endpoint", "end", "body">>,
   <<"GET", "/", "hdr", "hdr", "hdr", "hdr">>}

RequestKinds == Requests \union
  {<<"GET", "/", "end">>, <<"POST", "endpoint", "end">>,
   <<"POST", "endpoint", "end", "body">>, <<"POST", "endpoint", "hdr", "end", "body">>,
   <<"GET", "/", "hdr", "hdr", "end">>, <<"end", "GET", "/", "end">>,
   <<"GET", "/", "cr", "end">>,
   <<"bad", "end">>, <<"HEAD", "/unknown", "hdr", "end">>, <<"PUT", "/", "end">>,
   <<"OPTIONS", "opaque", "end">>, <<"GET", "/gen_204", "end">>, <<"GET", "opaque", "end">>}
=============================================================================
