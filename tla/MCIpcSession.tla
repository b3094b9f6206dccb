---------------------------- MODULE MCIpcSession ----------------------------
(* Small instances of IpcSession.  Mode is one of the two events because its  *)
(* number is that of the SUBSCRIBE reply, and window because it is not.        *)
EXTENDS IpcSession

MCEvents == {"mode", "window"}
=============================================================================
