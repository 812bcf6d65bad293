--------------------------- MODULE MCDeviceStream ---------------------------
(* Instances of DeviceStream.                                              *)
EXTENDS DeviceStream

=============================================================================
