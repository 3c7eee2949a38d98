------------------------------- MODULE MCDtls -------------------------------
(* Instances of the DTLS client for TLC. *)
EXTENDS OcpSession

MCPieces == [m \in {"HelloVerifyRequest", "ServerHello", "Certificate", "ServerKeyExchange",
                    "CertificateRequest", "ServerHelloDone", "Finished"} |->
               IF m = "Certificate" THEN {1, 2} ELSE {1}]

MCPacking == << << <<<<"ServerHello", {1}>>, <<"Certificate", {1}>>>> >>,
                << <<<<"Certificate", {2}>>>>,
                   <<<<"ServerKeyExchange", {1}>>, <<"CertificateRequest", {1}>>,
                     <<"ServerHelloDone", {1}>>>> >> >>
=============================================================================
