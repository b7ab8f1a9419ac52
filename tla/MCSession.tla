----------------------------- MODULE MCSession -----------------------------
(* One session with a host without fault, which ends its lines as RTSP has *)
(* it and sends a body of the length it declares.                          *)
EXTENDS Session, TLC

MCLineEnds == {<<CR, LF>>}
MCDeclared == "Content-Length: 1" :> 1
=============================================================================
