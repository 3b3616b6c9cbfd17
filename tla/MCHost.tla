------------------------------- MODULE MCHost -------------------------------
(* An instance of Host: Loop, then Socket and ByteBuffer in the order of   *)
(* FireWatch.lua, where the Lua module of Socket requires the one of       *)
(* ByteBuffer, and Loop a second time.  Socket does not unregister all it  *)
(* registers.                                                              *)
EXTENDS Host

MCFiles == {"Loop", "Socket", "ByteBuffer"}
MCNames == {"loop_sync", "SOCKET_TYPE_TCP", "socket_send", "socket_send_all",
            "BYTE_BUFFER_ENDIAN_LITTLE"}
MCRequires == [f \in MCFiles |-> IF f = "Socket" THEN {"ByteBuffer"} ELSE {}]
MCOrder == <<"Loop", "Socket", "ByteBuffer", "Loop">>
MCRegisters == [f \in MCFiles |->
    CASE f = "Loop" -> {"loop_sync"}
      [] f = "Socket" -> {"SOCKET_TYPE_TCP", "socket_send", "socket_send_all"}
      [] f = "ByteBuffer" -> {"BYTE_BUFFER_ENDIAN_LITTLE"}]
MCUnregisters == [f \in MCFiles |-> MCRegisters[f] \ {"socket_send_all"}]
MCCopied == [f \in MCFiles |->
    MCRegisters[f] \cap {"SOCKET_TYPE_TCP", "BYTE_BUFFER_ENDIAN_LITTLE"}]
=============================================================================
