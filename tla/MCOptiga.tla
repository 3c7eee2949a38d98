------------------------------ MODULE MCOptiga ------------------------------
(* The library with an APDU limit of 300: sizes on each side of every cut.   *)
EXTENDS OptigaCrypt

MCMessageLen == [ClientHello |-> 75, Certificate |-> 650, ClientKeyExchange |-> 281]
MCUpdates == {157, 158, 160, 161, 450, 451}
MCMeanwhile == {ReadData(0, 8, FALSE), CryptRandom(32)}
MCCalls ==
    {CryptRandom(n) : n \in {0, 32, 296, 297}} \cup {HardwarePoll(128)}
    \cup {GenKeyPair(curve, export, 133, "E0F1", "sign") : curve \in {"P256", "P384"}, export \in BOOLEAN}
    \cup {GenKeyPair("P384", TRUE, 68, "E0F1", "sign"), GenKeyPair("P521", FALSE, 133, "E0F1", "sign")}
    \cup {EcdsaGenkey, EcdhGenPublic, GenerateEccKeypair}
    \cup {SignFuncWrap(48), EcdsaSign(20), EcdsaSign(300), EcdsaVerify(48, 70), EcdhComputeShared}
    \cup {Sign(32, "E0F1", 70), Verify(32, 72, FALSE, 0, "P256"), Verify(48, 140, TRUE, 100, "P384")}
    \cup {Ecdh("E103", "P384", 100, export) : export \in BOOLEAN}
    \cup {TlsPrf(seed, n, export) : seed \in {64}, n \in {8, 40}, export \in BOOLEAN} \cup {TlsPrf(64, 300, TRUE)}
    \cup {ReadData(0, size, FALSE) : size \in {0, 296, 297, 700}}
    \cup {ReadData(10, 592, FALSE), ReadData(700, 4, FALSE), ReadData(0, 8, TRUE)}
    \cup {ReadMetadata(28, FALSE), ReadMetadata(20, FALSE), ReadMetadata(28, TRUE)}
    \cup {WriteData(type, 0, size, FALSE) : type \in {"write", "erase"}, size \in {0, 292, 293, 600}}
    \cup {WriteData("write", 292, 408, FALSE), WriteData("write", 292, 584, FALSE), WriteData("other", 0, 8, FALSE)}
    \cup {WriteMetadata(20, FALSE), WriteMetadata(20, TRUE)}
    \cup {Authenticate(len, c, room, FALSE) : len \in {7, 8, 256, 257}, c \in {"c1", "c2"}, room \in {80, 64}}
    \cup {Authenticate(8, "c1", 80, TRUE)}
    \cup {SetScheme(session) : session \in {57600, 57604}}
    \cup {FormMessage(message, 57600, extra) : message \in DOMAIN MCMessageLen, extra \in BOOLEAN}
    \cup {FormMessage("ClientHello", 1, FALSE), ProcessMessage("ServerHello", 57600, 90),
          ProcessMessage("ServerHello", 57600, 301), ProcessMessage("ServerHello", 1, 90),
          ProcessMessage("ServerHello", 57600, 0)}
    \cup {Crypto(cmd, 57600, len, room) : cmd \in {"Encrypt", "Decrypt"}, len \in {281, 282, 570}, room \in {700}}
    \cup {Crypto("Encrypt", 57600, 281, 290), Crypto("Encrypt", 57600, 570, 570), Crypto("Encrypt", 1, 20, 40),
          Crypto("Decrypt", 57600, 0, 40), Crypto("Decrypt", 57600, 40, 30)}
    \cup {Close(57600), Close(1)}
=============================================================================
