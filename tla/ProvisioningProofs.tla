-------------------------- MODULE ProvisioningProofs --------------------------
(***************************************************************************)
(* Proofs about the credentials and the configuration in flash, for any    *)
(* sets of keys and serial numbers and any number of crashes and failing   *)
(* kv calls.  The invariant says, for every control point, what a crash    *)
(* there leaves behind.  Behind them stand the proofs about the HTTP       *)
(* client that the board provisions itself through: its response parser,   *)
(* for any answers, cut anywhere.                                          *)
(***************************************************************************)
EXTENDS Provisioning, HttpExchange, WellFoundedInduction, TLAPS

\* A certificate in flash is one of the key beside it, unless a renewal strayed; no new
\* key is generated or certified while an older certificate is in flash; and what comes
\* back from a renewal is of the key that the serial number in flash belongs to.
Credentials ==
  /\ ~strayed /\ store.cert # NoCert => store.key = store.cert.key
  /\ pc \in {"clr_sn", "clr_key", "gen_key", "gen_csr", "sign", "write_cert"}
       => store.cert = NoCert
  /\ pc \in {"gen_csr", "sign"} => csr \in {NoKey, store.key}
  /\ pc = "write_cert" => resp.key = store.key
  /\ pc = "renew_cert" => store.sn # NoCert /\ resp.key = store.sn.key

\* The parts of the configuration are written before the flag that vouches for them.
Configuration ==
  /\ store.init = "true" => store.interval # "" /\ store.ssid # "" /\ store.pass # ""
  /\ pc \in {"menu", "input"} \/ ret = "menu" => store.init = "true"
  /\ pc \in {"def_pass", "clr_cert", "clr_sn", "clr_key", "sw_ver", "login",
             "init_interval", "init_flag"} => store.ssid # ""
  /\ pc \in {"clr_cert", "clr_sn", "clr_key", "sw_ver", "login",
             "init_interval", "init_flag"} => store.pass # ""
  /\ pc = "init_flag" => store.interval # ""

IInv == TypeOK /\ (faults = 0 => Credentials /\ Configuration)

-----------------------------------------------------------------------------
(* Types *)

\* What WriteKey leaves in flash.
LEMMA WriteKeyFacts ==
  ASSUME TypeOK, NEW f, NEW v, WriteKey(f, v)
  PROVE  /\ faults' \in Nat
         /\ store' = store \/ store' = [store EXCEPT ![f] = v]
         /\ faults' = 0 => faults = 0 /\ store' = [store EXCEPT ![f] = v]
BY DEF WriteKey, TypeOK

\* A value that ReadKey returns without a fault is the one in flash.
LEMMA ReadKeyFacts ==
  ASSUME TypeOK, NEW f, NEW v, ReadKey(f, v)
  PROVE  /\ faults' \in Nat
         /\ faults' = 0 => faults = 0 /\ v = store[f]
BY DEF ReadKey, TypeOK

\* A write of a value of the right type keeps the store well formed.
LEMMA WriteTyped ==
  ASSUME TypeOK
  PROVE  /\ WriteKey("ssid", "set") => store' \in Stores
         /\ WriteKey("sw_ver", "3.1.0") => store' \in Stores
         /\ WriteKey("init", "true") => store' \in Stores
         /\ \A p \in {"short", "long"} : WriteKey("pass", p) => store' \in Stores
         /\ \A i \in {"10000", "custom"} : WriteKey("interval", i) => store' \in Stores
         /\ \A c \in Certs \cup {NoCert} : WriteKey("cert", c) => store' \in Stores
         /\ \A c \in Certs \cup {NoCert} : WriteKey("sn", c) => store' \in Stores
         /\ \A k \in Keys \cup {NoKey} : WriteKey("key", k) => store' \in Stores
<1>1. WriteKey("ssid", "set") => store' \in Stores
  BY DEF WriteKey, TypeOK, Stores
<1>2. WriteKey("sw_ver", "3.1.0") => store' \in Stores
  BY DEF WriteKey, TypeOK, Stores
<1>3. WriteKey("init", "true") => store' \in Stores
  BY DEF WriteKey, TypeOK, Stores
<1>4. \A p \in {"short", "long"} : WriteKey("pass", p) => store' \in Stores
  BY DEF WriteKey, TypeOK, Stores
<1>5. \A i \in {"10000", "custom"} : WriteKey("interval", i) => store' \in Stores
  BY DEF WriteKey, TypeOK, Stores
<1>6. \A c \in Certs \cup {NoCert} : WriteKey("cert", c) => store' \in Stores
  BY DEF WriteKey, TypeOK, Stores
<1>7. \A c \in Certs \cup {NoCert} : WriteKey("sn", c) => store' \in Stores
  BY DEF WriteKey, TypeOK, Stores
<1>8. \A k \in Keys \cup {NoKey} : WriteKey("key", k) => store' \in Stores
  BY DEF WriteKey, TypeOK, Stores
<1> QED
  BY <1>1, <1>2, <1>3, <1>4, <1>5, <1>6, <1>7, <1>8

\* Every step keeps the store and the variables in RAM well formed.
LEMMA TypeStep == TypeOK /\ [Next]_vars => TypeOK'
<1> SUFFICES ASSUME TypeOK, [Next]_vars
             PROVE  TypeOK'
  OBVIOUS
<1>a. /\ NoCert \in Certs \cup {NoCert} /\ NoKey \in Keys \cup {NoKey}
      /\ resp \in Certs \cup {NoCert}
  BY DEF TypeOK, Certs, NoCert
<1>1. CASE DefaultSsid \/ DefaultPass \/ WriteSwVer \/ ChooseSsid \/ PollRateCommand
  <2>1. store' \in Stores /\ faults' \in Nat
    BY <1>1, WriteTyped, WriteKeyFacts
    DEF DefaultSsid, DefaultPass, WriteSwVer, ChooseSsid, PollRateCommand
  <2> QED
    BY <1>1, <2>1
    DEF DefaultSsid, DefaultPass, WriteSwVer, ChooseSsid, PollRateCommand, Goto, Go, ram,
        TypeOK, Labels
<1>2. CASE ClearClientSslData
  <2>1. store' \in Stores /\ faults' \in Nat
    BY <1>2, <1>a, WriteTyped, WriteKeyFacts DEF ClearClientSslData
  <2> QED
    BY <1>2, <2>1 DEF ClearClientSslData, Goto, Go, ram, TypeOK, Labels
<1>3. CASE InitAfterLogin
  <2>1. store' \in Stores /\ faults' \in Nat
    BY <1>3, WriteTyped, WriteKeyFacts DEF InitAfterLogin
  <2> QED
    BY <1>3, <2>1 DEF InitAfterLogin, Goto, Go, ram, TypeOK, Labels
<1>4. CASE ChoosePass
  <2>1. store' \in Stores /\ faults' \in Nat
    BY <1>4, WriteTyped, WriteKeyFacts DEF ChoosePass
  <2> QED
    BY <1>4, <2>1 DEF ChoosePass, Goto, Go, ram, TypeOK, Labels
<1>5. CASE StoreSigned
  <2>1. store' \in Stores /\ faults' \in Nat
    BY <1>5, <1>a, WriteTyped, WriteKeyFacts DEF StoreSigned
  <2> QED
    BY <1>5, <2>1 DEF StoreSigned, Goto, Go, ram, TypeOK, Labels
<1>6. CASE StoreRenewed
  <2>1. store' \in Stores /\ faults' \in Nat
    BY <1>6, <1>a, WriteTyped, WriteKeyFacts DEF StoreRenewed
  <2>2. strayed' \in BOOLEAN
    BY <1>6 DEF StoreRenewed, Off, TypeOK
  <2> QED
    BY <1>6, <2>1, <2>2 DEF StoreRenewed, Go, Off, ram, TypeOK, Labels
<1>7. CASE GenerateKeypair
  <2>1. PICK k \in Keys : WriteKey("key", k) /\ csr' = k
    BY <1>7 DEF GenerateKeypair
  <2>2. store' \in Stores /\ faults' \in Nat
    BY <2>1, WriteTyped, WriteKeyFacts
  <2> QED
    BY <1>7, <2>1, <2>2 DEF GenerateKeypair, Goto, Go, TypeOK, Labels
<1>8. CASE PowerOn \/ RunBootManager \/ ReadCertificate
  <2>1. faults' \in Nat
    BY <1>8, ReadKeyFacts DEF PowerOn, RunBootManager, ReadCertificate
  <2> QED
    BY <1>8, <2>1 DEF PowerOn, RunBootManager, ReadCertificate, Goto, Go, ram, TypeOK, Labels
<1>9. CASE PrintMenu
  <2>1. faults' \in Nat
    BY <1>9, ReadKeyFacts DEF PrintMenu
  <2>2. UNCHANGED <<store, crashes>>
    BY <1>9 DEF PrintMenu
  <2>3. \/ pc' = "input" /\ UNCHANGED <<ram, registered, strayed>>
        \/ Off
    BY <1>9 DEF PrintMenu
  <2> QED
    BY <2>1, <2>2, <2>3 DEF Off, ram, TypeOK, Labels
<1>10. CASE SignOk \/ RenewCertificate
  <2>1. resp' \in Certs \cup {NoCert} /\ faults' \in Nat
    <3>1. CASE SignOk
      BY <3>1 DEF SignOk, TypeOK, Certs
    <3>2. CASE RenewCertificate
      <4>1. PICK sn \in {store.sn, NoCert} :
              /\ ReadKey("sn", sn)
              /\ \/ /\ sn # NoCert
                    /\ \E n \in Serials : resp' = [key |-> sn.key, sn |-> n]
                 \/ resp' = resp
        BY <3>2 DEF RenewCertificate
      <4>2. store.sn \in Certs \cup {NoCert}
        BY DEF TypeOK, Stores
      <4>3. faults' \in Nat
        BY <4>1, ReadKeyFacts
      <4>4. CASE resp' = resp
        BY <4>3, <4>4 DEF TypeOK
      <4>5. CASE sn # NoCert /\ \E n \in Serials : resp' = [key |-> sn.key, sn |-> n]
        <5>1. sn \in Certs
          BY <4>1, <4>2, <4>5
        <5> QED
          BY <4>3, <4>5, <5>1 DEF Certs
      <4> QED
        BY <4>1, <4>4, <4>5
    <3> QED
      BY <1>10, <3>1, <3>2
  <2>2. CASE SignOk
    BY <2>1, <2>2 DEF SignOk, Goto, Go, TypeOK, Labels
  <2>3. CASE RenewCertificate
    BY <2>1, <2>3 DEF RenewCertificate, Goto, Go, TypeOK, Labels
  <2> QED
    BY <1>10, <2>2, <2>3
<1>11. CASE \/ PowerCycle \/ Quit \/ SignAborts \/ WatchdogReset \/ ConnectFails \/ Crash
  BY <1>11 DEF PowerCycle, Quit, SignAborts, WatchdogReset, ConnectFails, Crash, Off,
      TypeOK, Labels
<1>12. CASE LoginOk \/ LoginWrong \/ ChooseDefaults \/ ChooseClear \/ InvalidChoice
  BY <1>12 DEF LoginOk, LoginWrong, ChooseDefaults, ChooseClear, InvalidChoice, Goto, Go, ram,
      TypeOK, Labels
<1>13. CASE \/ SeedFails \/ GenerateKeypairFails \/ GenerateCertificateSigningRequest
            \/ SignInvalid \/ GetDeviceSecret \/ CreateDeviceInDecada \/ ConnectOk
  BY <1>13 DEF SeedFails, GenerateKeypairFails, GenerateCertificateSigningRequest,
      SignInvalid, GetDeviceSecret, CreateDeviceInDecada, ConnectOk, Goto, Go, ram, TypeOK,
      Labels
<1>14. CASE UNCHANGED vars
  BY <1>14 DEF vars, ram, TypeOK
<1> QED
  BY <1>1, <1>2, <1>3, <1>4, <1>5, <1>6, <1>7, <1>8, <1>9, <1>10, <1>11, <1>12, <1>13,
     <1>14 DEF Next, BootManager, Operator, Provision, Normal

-----------------------------------------------------------------------------
(* What a write that does not fail changes in flash, and what it leaves alone *)

SameCert   == store'.cert = store.cert
SameKey    == store'.key = store.key
SameWifi   == store'.ssid = store.ssid /\ store'.pass = store.pass
SameBoot   == store'.init = store.init /\ store'.interval = store.interval
SameConfig == SameWifi /\ SameBoot

\* A write of one field keeps the others.
LEMMA Written ==
  ASSUME TypeOK, NEW v, faults' = 0
  PROVE  /\ WriteKey("ssid", v) => /\ faults = 0 /\ store'.ssid = v
                                   /\ store'.pass = store.pass
                                   /\ SameBoot /\ SameCert /\ SameKey
         /\ WriteKey("pass", v) => /\ faults = 0 /\ store'.pass = v
                                   /\ store'.ssid = store.ssid
                                   /\ SameBoot /\ SameCert /\ SameKey
         /\ WriteKey("sw_ver", v) => faults = 0 /\ SameConfig /\ SameCert /\ SameKey
         /\ WriteKey("init", v) => /\ faults = 0 /\ store'.init = v
                                   /\ store'.interval = store.interval
                                   /\ SameWifi /\ SameCert /\ SameKey
         /\ WriteKey("interval", v) => /\ faults = 0 /\ store'.interval = v
                                       /\ store'.init = store.init
                                       /\ SameWifi /\ SameCert /\ SameKey
         /\ WriteKey("sn", v) => faults = 0 /\ SameConfig /\ SameCert /\ SameKey
         /\ WriteKey("cert", v) => faults = 0 /\ store'.cert = v /\ SameConfig /\ SameKey
         /\ WriteKey("key", v) => faults = 0 /\ store'.key = v /\ SameConfig /\ SameCert
<1>1. faults \in Nat /\ store \in Stores
  BY DEF TypeOK
<1>2. WriteKey("ssid", v) => /\ faults = 0 /\ store'.ssid = v /\ store'.pass = store.pass
                             /\ SameBoot /\ SameCert /\ SameKey
  <2> SUFFICES ASSUME WriteKey("ssid", v)
               PROVE  faults = 0 /\ store' = [store EXCEPT !["ssid"] = v]
    BY <1>1 DEF Stores, SameConfig, SameWifi, SameBoot, SameCert, SameKey
  <2> QED
    BY <1>1 DEF WriteKey
<1>3. WriteKey("pass", v) => /\ faults = 0 /\ store'.pass = v /\ store'.ssid = store.ssid
                             /\ SameBoot /\ SameCert /\ SameKey
  <2> SUFFICES ASSUME WriteKey("pass", v)
               PROVE  faults = 0 /\ store' = [store EXCEPT !["pass"] = v]
    BY <1>1 DEF Stores, SameConfig, SameWifi, SameBoot, SameCert, SameKey
  <2> QED
    BY <1>1 DEF WriteKey
<1>4. WriteKey("sw_ver", v) => faults = 0 /\ SameConfig /\ SameCert /\ SameKey
  <2> SUFFICES ASSUME WriteKey("sw_ver", v)
               PROVE  faults = 0 /\ store' = [store EXCEPT !["sw_ver"] = v]
    BY <1>1 DEF Stores, SameConfig, SameWifi, SameBoot, SameCert, SameKey
  <2> QED
    BY <1>1 DEF WriteKey
<1>5. WriteKey("init", v) => /\ faults = 0 /\ store'.init = v
                             /\ store'.interval = store.interval
                             /\ SameWifi /\ SameCert /\ SameKey
  <2> SUFFICES ASSUME WriteKey("init", v)
               PROVE  faults = 0 /\ store' = [store EXCEPT !["init"] = v]
    BY <1>1 DEF Stores, SameConfig, SameWifi, SameBoot, SameCert, SameKey
  <2> QED
    BY <1>1 DEF WriteKey
<1>6. WriteKey("interval", v) => /\ faults = 0 /\ store'.interval = v
                                 /\ store'.init = store.init
                                 /\ SameWifi /\ SameCert /\ SameKey
  <2> SUFFICES ASSUME WriteKey("interval", v)
               PROVE  faults = 0 /\ store' = [store EXCEPT !["interval"] = v]
    BY <1>1 DEF Stores, SameConfig, SameWifi, SameBoot, SameCert, SameKey
  <2> QED
    BY <1>1 DEF WriteKey
<1>7. WriteKey("sn", v) => faults = 0 /\ SameConfig /\ SameCert /\ SameKey
  <2> SUFFICES ASSUME WriteKey("sn", v)
               PROVE  faults = 0 /\ store' = [store EXCEPT !["sn"] = v]
    BY <1>1 DEF Stores, SameConfig, SameWifi, SameBoot, SameCert, SameKey
  <2> QED
    BY <1>1 DEF WriteKey
<1>8. WriteKey("cert", v) => faults = 0 /\ store'.cert = v /\ SameConfig /\ SameKey
  <2> SUFFICES ASSUME WriteKey("cert", v)
               PROVE  faults = 0 /\ store' = [store EXCEPT !["cert"] = v]
    BY <1>1 DEF Stores, SameConfig, SameWifi, SameBoot, SameCert, SameKey
  <2> QED
    BY <1>1 DEF WriteKey
<1>9. WriteKey("key", v) => faults = 0 /\ store'.key = v /\ SameConfig /\ SameCert
  <2> SUFFICES ASSUME WriteKey("key", v)
               PROVE  faults = 0 /\ store' = [store EXCEPT !["key"] = v]
    BY <1>1 DEF Stores, SameConfig, SameWifi, SameBoot, SameCert, SameKey
  <2> QED
    BY <1>1 DEF WriteKey
<1> QED
  BY <1>2, <1>3, <1>4, <1>5, <1>6, <1>7, <1>8, <1>9

-----------------------------------------------------------------------------
(* The inductive invariant *)

\* A crash behind any step leaves a certificate with its own key, or none.
LEMMA CredentialsStep ==
  TypeOK /\ (faults = 0 => Credentials) /\ [Next]_vars
    => (faults' = 0 => Credentials')
<1> SUFFICES ASSUME TypeOK, faults = 0 => Credentials, [Next]_vars,
                    faults' = 0
             PROVE  Credentials'
  OBVIOUS
<1>1. CASE \/ DefaultSsid \/ DefaultPass \/ WriteSwVer \/ InitAfterLogin \/ ChooseSsid
           \/ ChoosePass \/ PollRateCommand
  <2>1. faults = 0 /\ SameCert /\ SameKey
    BY <1>1, Written DEF DefaultSsid, DefaultPass, WriteSwVer, InitAfterLogin, ChooseSsid,
        ChoosePass, PollRateCommand
  <2>2. /\ pc' \in {"def_pass", "clr_cert", "login", "init_flag", "menu", "online"}
        /\ pc' = "online" => pc = "online"
    BY <1>1 DEF DefaultSsid, DefaultPass, WriteSwVer, InitAfterLogin, ChooseSsid,
        ChoosePass, PollRateCommand, Goto, Go
  <2>3. strayed' = strayed
    BY <1>1 DEF DefaultSsid, DefaultPass, WriteSwVer, InitAfterLogin, ChooseSsid,
        ChoosePass, PollRateCommand, Goto
  <2> QED
    BY <2>1, <2>2, <2>3 DEF SameCert, SameKey, Credentials
<1>2. CASE ClearClientSslData
  <2>1. CASE pc = "clr_cert"
    <3>1. store'.cert = NoCert /\ pc' = "clr_sn"
      BY <1>2, <2>1, Written DEF ClearClientSslData, Go, Go
    <3> QED
      BY <3>1 DEF Credentials
  <2>2. CASE pc = "clr_sn"
    <3>1. faults = 0 /\ SameCert /\ SameKey /\ pc' = "clr_key"
      BY <1>2, <2>2, Written DEF ClearClientSslData, Goto, Go
    <3> QED
      BY <2>2, <3>1 DEF SameCert, SameKey, Credentials
  <2>3. CASE pc = "clr_key"
    <3>1. faults = 0 /\ SameCert /\ pc' \in {"sw_ver", "menu"}
      BY <1>2, <2>3, Written DEF ClearClientSslData, Goto, Go
    <3> QED
      BY <2>3, <3>1 DEF SameCert, Credentials
  <2> QED
    BY <1>2, <2>1, <2>2, <2>3 DEF ClearClientSslData
<1>3. CASE GenerateKeypair
  <2>1. PICK k \in Keys : WriteKey("key", k) /\ csr' = k
    BY <1>3 DEF GenerateKeypair
  <2>2. faults = 0 /\ SameCert /\ store'.key = k
    BY <2>1, Written
  <2>3. pc = "gen_key" /\ pc' = "gen_csr"
    BY <1>3 DEF GenerateKeypair, Goto, Go
  <2> QED
    BY <2>1, <2>2, <2>3 DEF SameCert, Credentials
<1>4. CASE StoreSigned \/ StoreRenewed
  <2>1. CASE pc = "write_cert"
    <3>1. faults = 0 /\ SameKey /\ store'.cert = resp /\ pc' = "write_sn"
      BY <1>4, <2>1, Written DEF StoreSigned, StoreRenewed, Go
    <3> QED
      BY <2>1, <3>1 DEF SameKey, Credentials
  <2>2. CASE pc = "renew_cert"
    <3>1. /\ faults = 0 /\ SameKey /\ store'.cert = resp /\ pc' = "renew_sn"
          /\ strayed' = (strayed \/ store.sn # store.cert)
      BY <1>4, <2>2, Written DEF StoreSigned, StoreRenewed, Go
    <3> QED
      BY <2>2, <3>1 DEF SameKey, Credentials
  <2>3. CASE pc \in {"write_sn", "renew_sn"}
    <3>1. faults = 0 /\ SameCert /\ SameKey /\ pc' \in {"device", "off"}
      BY <1>4, <2>3, Written DEF StoreSigned, StoreRenewed, Goto, Go, Off
    <3>2. strayed' = strayed
      BY <1>4, <2>3 DEF StoreSigned, StoreRenewed, Goto, Off
    <3> QED
      BY <3>1, <3>2 DEF SameCert, SameKey, Credentials
  <2> QED
    BY <1>4, <2>1, <2>2, <2>3 DEF StoreSigned, StoreRenewed
<1>5. CASE PowerOn \/ RunBootManager \/ PrintMenu
  <2>1. faults = 0 /\ UNCHANGED <<store, strayed>>
    BY <1>5, ReadKeyFacts DEF PowerOn, RunBootManager, PrintMenu, Goto, Off
  <2>2. pc' \in {"boot", "run", "sw_ver", "def_ssid", "input", "off"}
    BY <1>5 DEF PowerOn, RunBootManager, PrintMenu, Goto, Go, Off
  <2> QED
    BY <2>1, <2>2 DEF Credentials
<1>6. CASE ReadCertificate
  <2>1. PICK c : ReadKey("cert", c) /\ pc' = (IF c = NoCert THEN "gen_key" ELSE "device")
    BY <1>6 DEF ReadCertificate, Goto, Go
  <2>2. faults = 0 /\ c = store.cert /\ UNCHANGED <<store, strayed>>
    BY <1>6, <2>1, ReadKeyFacts DEF ReadCertificate, Goto
  <2> QED
    BY <2>1, <2>2 DEF Credentials
<1>7. CASE SignOk
  <2>1. /\ faults = 0 /\ UNCHANGED <<store, strayed>> /\ pc = "sign" /\ pc' = "write_cert"
        /\ csr # NoKey /\ resp'.key = csr
    BY <1>7 DEF SignOk, Goto, Go
  <2> QED
    BY <2>1 DEF Credentials
<1>8. CASE RenewCertificate
  <2>1. PICK sn \in {store.sn, NoCert} :
          /\ ReadKey("sn", sn)
          /\ \/ /\ sn # NoCert /\ pc' = "renew_cert"
                /\ \E n \in Serials : resp' = [key |-> sn.key, sn |-> n]
             \/ pc' = "online"
    BY <1>8 DEF RenewCertificate, Goto, Go
  <2>2. faults = 0 /\ UNCHANGED <<store, strayed>>
    BY <1>8, <2>1, ReadKeyFacts DEF RenewCertificate, Goto
  <2>3. pc' = "renew_cert" => store.sn # NoCert /\ resp'.key = store.sn.key
    BY <2>1
  <2> QED
    BY <2>1, <2>2, <2>3 DEF Credentials
<1>9. CASE GenerateCertificateSigningRequest
  <2>1. /\ faults = 0 /\ UNCHANGED <<store, strayed>> /\ pc = "gen_csr" /\ pc' = "sign"
        /\ csr' \in {csr, NoKey}
    BY <1>9 DEF GenerateCertificateSigningRequest, Goto, Go
  <2> QED
    BY <2>1 DEF Credentials
<1>10. CASE \/ LoginOk \/ LoginWrong \/ PowerCycle \/ Quit \/ ChooseDefaults \/ ChooseClear
            \/ InvalidChoice \/ SeedFails \/ GenerateKeypairFails \/ SignInvalid
            \/ SignAborts \/ GetDeviceSecret \/ CreateDeviceInDecada \/ WatchdogReset
            \/ ConnectOk \/ ConnectFails \/ Crash
  <2>1. /\ faults = 0 /\ UNCHANGED <<store, strayed>>
        /\ pc' \in {"init_interval", "locked", "login", "off", "def_ssid", "clr_cert",
                    "menu", "device", "create", "connect", "online"}
    BY <1>10 DEF LoginOk, LoginWrong, PowerCycle, Quit, ChooseDefaults, ChooseClear,
        InvalidChoice, SeedFails, GenerateKeypairFails, SignInvalid, SignAborts,
        GetDeviceSecret, CreateDeviceInDecada, WatchdogReset, ConnectOk, ConnectFails,
        Crash, Goto, Go, Off
  <2> QED
    BY <2>1 DEF Credentials
<1>11. CASE UNCHANGED vars
  BY <1>11 DEF vars, ram, Credentials
<1> QED
  BY <1>1, <1>2, <1>3, <1>4, <1>5, <1>6, <1>7, <1>8, <1>9, <1>10, <1>11
  DEF Next, BootManager, Operator, Provision, Normal

\* A crash behind any step leaves no init flag without the configuration it vouches for.
LEMMA ConfigurationStep ==
  TypeOK /\ (faults = 0 => Configuration) /\ [Next]_vars => (faults' = 0 => Configuration')
<1> SUFFICES ASSUME TypeOK, faults = 0 => Configuration, [Next]_vars, faults' = 0
             PROVE  Configuration'
  OBVIOUS
<1>1. CASE DefaultSsid \/ ChooseSsid
  <2>1. /\ faults = 0 /\ store'.ssid = "set" /\ store'.pass = store.pass /\ SameBoot
        /\ ret' = ret
    BY <1>1, Written DEF DefaultSsid, ChooseSsid, ram
  <2>2. \/ pc = "def_ssid" /\ pc' = "def_pass"
        \/ pc = "input" /\ pc' = "menu"
    BY <1>1 DEF DefaultSsid, ChooseSsid, Goto, Go
  <2> QED
    BY <2>1, <2>2 DEF SameBoot, Configuration
<1>2. CASE DefaultPass \/ ChoosePass
  <2>1. /\ faults = 0 /\ store'.pass \in {"short", "long"} /\ store'.ssid = store.ssid
        /\ SameBoot /\ ret' = ret
    BY <1>2, Written DEF DefaultPass, ChoosePass, ram
  <2>2. \/ pc = "def_pass" /\ pc' = "clr_cert"
        \/ pc = "input" /\ pc' = "menu"
    BY <1>2 DEF DefaultPass, ChoosePass, Goto, Go
  <2> QED
    BY <2>1, <2>2 DEF SameBoot, Configuration
<1>3. CASE ClearClientSslData
  <2>1. faults = 0 /\ SameConfig /\ ret' = ret
    BY <1>3, Written DEF ClearClientSslData, ram
  <2>2. /\ pc \in {"clr_cert", "clr_sn", "clr_key"}
        /\ pc' \in {"clr_sn", "clr_key", "sw_ver", "menu"}
        /\ pc' = "menu" => ret = "menu"
    BY <1>3 DEF ClearClientSslData, Goto, Go, TypeOK
  <2> QED
    BY <2>1, <2>2 DEF SameConfig, SameWifi, SameBoot, Configuration
<1>4. CASE WriteSwVer
  <2>1. faults = 0 /\ SameConfig /\ ret' = ret /\ pc = "sw_ver" /\ pc' = "login"
    BY <1>4, Written DEF WriteSwVer, Goto, Go, ram
  <2> QED
    BY <2>1 DEF SameConfig, SameWifi, SameBoot, Configuration
<1>5. CASE InitAfterLogin
  <2>1. CASE pc = "init_interval"
    <3>1. /\ faults = 0 /\ SameWifi /\ store'.interval = "10000" /\ store'.init = store.init
          /\ ret' = ret /\ pc' = "init_flag"
      BY <1>5, <2>1, Written DEF InitAfterLogin, Goto, Go, ram
    <3> QED
      BY <2>1, <3>1 DEF SameWifi, Configuration
  <2>2. CASE pc = "init_flag"
    <3>1. /\ faults = 0 /\ SameWifi /\ store'.init = "true"
          /\ store'.interval = store.interval /\ ret' = ret /\ pc' = "menu"
      BY <1>5, <2>2, Written DEF InitAfterLogin, Goto, Go, ram
    <3> QED
      BY <2>2, <3>1 DEF SameWifi, Configuration
  <2> QED
    BY <1>5, <2>1, <2>2 DEF InitAfterLogin
<1>6. CASE PollRateCommand
  <2>1. /\ faults = 0 /\ SameWifi /\ store'.interval = "custom" /\ store'.init = store.init
        /\ ret' = ret /\ pc = "online" /\ pc' = "online"
    BY <1>6, Written DEF PollRateCommand, ram
  <2> QED
    BY <2>1 DEF SameWifi, Configuration
<1>7. CASE GenerateKeypair \/ StoreSigned \/ StoreRenewed
  <2>1. faults = 0 /\ SameConfig /\ ret' \in {ret, "login"}
    BY <1>7, Written DEF GenerateKeypair, StoreSigned, StoreRenewed, Off, ram
  <2>2. pc' \in {"gen_csr", "write_sn", "renew_sn", "device", "off"}
    BY <1>7 DEF GenerateKeypair, StoreSigned, StoreRenewed, Goto, Go, Off
  <2> QED
    BY <2>1, <2>2 DEF SameConfig, SameWifi, SameBoot, Configuration
<1>8. CASE PowerOn \/ PrintMenu \/ ReadCertificate
  <2>1. faults = 0 /\ UNCHANGED store
    BY <1>8, ReadKeyFacts DEF PowerOn, PrintMenu, ReadCertificate
  <2>2. /\ pc' \in {"boot", "run", "input", "off", "gen_key", "device"}
        /\ pc' = "input" => pc = "menu"
        /\ ret' \in {ret, "login"}
    BY <1>8 DEF PowerOn, PrintMenu, ReadCertificate, Goto, Go, Off, ram
  <2> QED
    BY <2>1, <2>2 DEF Configuration
<1>9. CASE RunBootManager
  <2>1. PICK flag : /\ ReadKey("init", flag)
                    /\ pc' = (IF flag = "true" THEN "sw_ver" ELSE "def_ssid")
    BY <1>9 DEF RunBootManager, Goto, Go
  <2>2. faults = 0 /\ flag = store.init /\ UNCHANGED store /\ ret' = ret
    BY <1>9, <2>1, ReadKeyFacts DEF RunBootManager, ram
  <2> QED
    BY <2>1, <2>2 DEF Configuration
<1>10. CASE LoginOk \/ LoginWrong \/ ChooseDefaults \/ ChooseClear \/ InvalidChoice
  <2>1. /\ faults = 0 /\ UNCHANGED store
        /\ \/ pc = "login" /\ pc' \in {"init_interval", "login", "locked"} /\ ret' = ret
           \/ /\ pc = "input" /\ pc' \in {"def_ssid", "clr_cert", "menu"}
              /\ ret' \in {ret, "menu"}
    BY <1>10 DEF LoginOk, LoginWrong, ChooseDefaults, ChooseClear, InvalidChoice, Goto, Go, ram
  <2> QED
    BY <2>1 DEF Configuration
<1>11. CASE \/ SignOk \/ GenerateCertificateSigningRequest \/ PowerCycle
            \/ Quit \/ SeedFails \/ GenerateKeypairFails \/ SignInvalid \/ SignAborts
            \/ GetDeviceSecret \/ CreateDeviceInDecada \/ WatchdogReset \/ ConnectOk
            \/ ConnectFails \/ Crash
  <2>1. /\ faults = 0 /\ UNCHANGED store /\ ret' \in {ret, "login"}
        /\ pc' \in {"write_cert", "sign", "off", "device", "create", "connect",
                    "online"}
    BY <1>11 DEF SignOk, GenerateCertificateSigningRequest, PowerCycle,
        Quit, SeedFails, GenerateKeypairFails, SignInvalid, SignAborts, GetDeviceSecret,
        CreateDeviceInDecada, WatchdogReset, ConnectOk, ConnectFails, Crash, Goto, Go, Off, ram
  <2> QED
    BY <2>1 DEF Configuration
<1>12. CASE RenewCertificate
  <2>1. faults = 0 /\ UNCHANGED <<store, ret>> /\ pc' \in {"renew_cert", "online"}
    BY <1>12, ReadKeyFacts DEF RenewCertificate, Goto, Go
  <2> QED
    BY <2>1 DEF Configuration
<1>13. CASE UNCHANGED vars
  BY <1>13 DEF vars, ram, Configuration
<1> QED
  BY <1>1, <1>2, <1>3, <1>4, <1>5, <1>6, <1>7, <1>8, <1>9, <1>10, <1>11, <1>12, <1>13
  DEF Next, BootManager, Operator, Provision, Normal

-----------------------------------------------------------------------------
(* The theorems *)

\* A board as it leaves the factory satisfies the inductive invariant.
LEMMA InitIInv == Init => IInv
<1> SUFFICES ASSUME Init
             PROVE  IInv
  OBVIOUS
<1>1. TypeOK
  <2>1. Blank \in Stores
    BY DEF Blank, Stores
  <2>2. pc \in Labels /\ csr \in Keys \cup {NoKey} /\ resp \in Certs \cup {NoCert}
    BY DEF Init, Labels
  <2>3. ret \in {"login", "menu"} /\ tries \in 0..3 /\ crashes \in Nat /\ faults \in Nat
    BY DEF Init
  <2>4. registered \in BOOLEAN
    BY DEF Init
  <2> QED
    BY <2>1, <2>2, <2>3, <2>4 DEF Init, TypeOK
<1>2. Credentials /\ Configuration
  BY DEF Init, Credentials, Configuration, Blank
<1> QED
  BY <1>1, <1>2 DEF IInv

\* The inductive invariant holds in every reachable state.
LEMMA IInvAlways == Spec => []IInv
<1>1. IInv /\ [Next]_vars => IInv'
  BY TypeStep, CredentialsStep, ConfigurationStep DEF IInv
<1> QED
  BY InitIInv, <1>1, PTL DEF Spec

\* The store and the variables of the boot manager and of the provisioning keep their
\* types.
THEOREM TypeCorrect == Spec => []TypeOK
<1>1. IInv => TypeOK
  BY DEF IInv
<1> QED
  BY IInvAlways, <1>1, PTL

\* Whatever keys and serial numbers are issued and however often and wherever the power
\* fails, a certificate in flash has its private key beside it while kv calls work,
\* unless a renewal was asked for by the serial number of another certificate.
THEOREM CertificateUsable == Spec => []CertMatchesKey
<1>1. IInv => CertMatchesKey
  BY DEF IInv, Credentials, CertMatchesKey
<1> QED
  BY IInvAlways, <1>1, PTL

\* However often and wherever the power fails, a board with the init flag is configured
\* while kv calls work.
THEOREM ConfigurationComplete == Spec => []ConfigComplete
<1>1. IInv => ConfigComplete
  BY DEF IInv, Configuration, ConfigComplete
<1> QED
  BY IInvAlways, <1>1, PTL
-----------------------------------------------------------------------------
(* The HTTP client: its invariant is what the response parser relies on from *)
(* one character to the next (Relied), between two buffers (Rests) and, with *)
(* an error, not at all (Sound).                                             *)

(* The fields of the parser. *)
ParserFields ==
    {"state", "hs", "word", "flags", "length", "nread", "errno", "major", "minor", "code",
     "upgrade", "stop", "mark", "text", "run", "asserts", "resp"}

(* The states that rely on nothing but that no mark is set. *)
PlainStates ==
    (StatusStates \cup HeaderStates \cup {"dead"}) \ {"res_status", "field", "value"}

(* Where a mark may be set. *)
MarkIn(state) ==
    CASE state = "res_status" -> "status"
      [] state = "field" -> "field"
      [] state = "value" -> "value"
      [] state \in {"body_identity", "body_identity_eof", "chunk_data", "chunk_data_almost_done"} -> "body"
      [] OTHER -> "none"

BodyStates == ChunkStates \cup {"body_identity", "body_identity_eof"}

(* What a parser without an error relies on from one character to the next: *)
(* the state says what the length and the flags are.                        *)
Relied(p) ==
    /\ p.state \in StatusStates \cup HeaderStates \cup BodyStates \cup {"dead"}
    /\ p.length \in 0 .. MaxLength /\ p.nread \in Nat
    /\ p.mark \in {"none", MarkIn(p.state)}
    /\ p.state \in ChunkStates => "chunked" \in p.flags
    /\ p.state \in {"body_identity", "chunk_data"} => p.length \notin {0, MaxLength}
    /\ p.state = "chunk_data_almost_done" => p.length = 0
    /\ p.state \in {"chunk_size", "chunk_parameters", "chunk_size_almost_done"} => p.length < MaxLength
    /\ p.state = "value" => p.hs \notin {"connection", "encoding"}
                            /\ (p.hs = "length" => p.length < MaxLength)
    /\ p.state = "field" => p.hs \in {"general", "matching", "connection", "length", "encoding", "upgrade"}

Held(p) == DOMAIN p = ParserFields /\ p.asserts = TRUE
Sound(p) == Held(p) /\ (p.errno = "ok" => Relied(p))
Between(p) == Sound(p) /\ (p.errno = "ok" /\ p.state = "chunk_size_start" => p.nread = 0)

(* A parser with an error relies on nothing. *)
LEMMA FailsIsSound == \A p, e : Held(p) /\ e # "ok" => Between(Fails(p, e))
BY DEF Between, Sound, Held, Fails, ParserFields

(* A plain state relies on little. *)
LEMMA PlainIsSound ==
    \A p : Held(p) /\ p.state \in PlainStates /\ p.length \in 0 .. MaxLength /\ p.nread \in Nat
             /\ p.mark = "none" => Between(p)
BY DEF Between, Sound, Relied, PlainStates, StatusStates, HeaderStates, BodyStates, ChunkStates, MarkIn

(* What a sound parser in a plain state has. *)
LEMMA SoundPlain ==
    \A p : Sound(p) /\ p.errno = "ok" /\ p.state \in PlainStates =>
             p.length \in 0 .. MaxLength /\ p.nread \in Nat /\ p.mark = "none"
BY DEF Sound, Relied, PlainStates, StatusStates, HeaderStates, BodyStates, ChunkStates, MarkIn

(* t stays where p is, or goes to another plain state, or has an error. *)
Plainly(t, p) ==
    /\ Held(t)
    /\ t.errno = "ok" => t.state \in PlainStates /\ t.length \in {p.length, MaxLength}
                         /\ t.nread \in {p.nread, 0} /\ t.mark = "none"

(* What goes plainly on from a sound parser is sound. *)
LEMMA PlainlySound ==
    ASSUME NEW p, Sound(p), p.errno = "ok", NEW t, Plainly(t, p)
    PROVE  Between(t)
<1>1. p.length \in 0 .. MaxLength /\ p.nread \in Nat /\ MaxLength \in 0 .. MaxLength
  BY HttpAssumption DEF Sound, Relied
<1>2. CASE t.errno = "ok"
  BY <1>1, <1>2, PlainIsSound DEF Plainly
<1>3. CASE t.errno # "ok"
  BY <1>3 DEF Plainly, Between, Sound
<1> QED
  BY <1>2, <1>3

(* The first character of an answer. *)
LEMMA StartResDoes ==
    ASSUME NEW p, Sound(p), p.errno = "ok", p.state = "start_res", NEW c
    PROVE  Between(StartRes(p, c))
<1>1. p.mark = "none"
  BY SoundPlain DEF PlainStates, StatusStates
<1>2. Plainly(StartRes(p, c), p)
  BY <1>1 DEF Plainly, StartRes, To, Fails, Sound, Held, ParserFields, PlainStates, StatusStates, HeaderStates
<1> QED
  BY <1>2, PlainlySound

(* A character that must be one certain one. *)
LEMMA ConstantDoes ==
    ASSUME NEW p, Sound(p), p.errno = "ok", p.mark = "none", NEW c, NEW e, NEW s \in PlainStates
    PROVE  Between(Constant(p, c, e, s))
<1>1. Plainly(Constant(p, c, e, s), p)
  BY DEF Plainly, Constant, To, Fails, Sound, Held, ParserFields
<1> QED
  BY <1>1, PlainlySound

(* The digits of the version stay below a thousand. *)
LEMMA VersionDoes ==
    ASSUME NEW p, Sound(p), p.errno = "ok", NEW c,
           p.state \in {"res_first_major", "res_major", "res_first_minor", "res_minor"}
    PROVE  Between(Version(p, c))
<1>1. p.mark = "none"
  BY SoundPlain DEF PlainStates, StatusStates
<1> DEFINE t == Version(p, c)
<1> DEFINE n == IF IsNum(c) THEN Digits[c] ELSE 0
           major == p.major * 10 + n
           minor == p.minor * 10 + n
           major2 == [p EXCEPT !.major = major]
           minor2 == [p EXCEPT !.minor = minor]
           major1 == [To(p, "res_major") EXCEPT !.major = n]
           minor1 == [To(p, "res_minor") EXCEPT !.minor = n]
           bad == Fails(p, "version")
           r1 == To(p, "res_first_minor")
           r2 == To(p, "res_first_code")
<1>2. t \in {bad, r1, r2, major1, minor1, major2, minor2}
  <2>1. t = CASE p.state = "res_major" /\ c = "." -> r1
              [] p.state = "res_minor" /\ c = " " -> r2
              [] ~IsNum(c) /\ ~(p.state = "res_major" /\ c = ".") /\ ~(p.state = "res_minor" /\ c = " ") -> bad
              [] OTHER ->
                   CASE p.state = "res_first_major" -> major1
                     [] p.state = "res_first_minor" -> minor1
                     [] p.state = "res_major" -> IF major > 999 THEN bad ELSE major2
                     [] p.state = "res_minor" -> IF minor > 999 THEN bad ELSE minor2
    BY DEF Version
  <2> HIDE DEF n, major, minor, major1, minor1, major2, minor2, bad, r1, r2, t
  <2> QED
    BY <2>1
<1> HIDE DEF n, major, minor, t
<1>3. Plainly(bad, p) /\ Plainly(r1, p) /\ Plainly(r2, p)
  BY <1>1 DEF To, Fails, Sound, Held, ParserFields, Plainly, PlainStates, StatusStates
<1>4. Plainly(major1, p) /\ Plainly(minor1, p)
  BY <1>1 DEF To, Sound, Held, ParserFields, Plainly, PlainStates, StatusStates
<1>5. Plainly(major2, p) /\ Plainly(minor2, p)
  <2>1. p.state \in PlainStates
    BY DEF PlainStates, StatusStates
  <2> QED
    BY <1>1, <2>1 DEF Sound, Held, ParserFields, Plainly
<1> HIDE DEF bad, r1, r2, major1, minor1, major2, minor2
<1>6. Plainly(t, p)
  BY <1>2, <1>3, <1>4, <1>5
<1> QED
  BY <1>6, PlainlySound DEF t

(* The digits of the status code. *)
LEMMA CodeDoes ==
    ASSUME NEW p, Sound(p), p.errno = "ok", p.state \in {"res_first_code", "res_code"}, NEW c
    PROVE  (p.state = "res_first_code" => Between(FirstCode(p, c))) /\ (p.state = "res_code" => Between(Code(p, c)))
<1>1. p.mark = "none"
  BY SoundPlain DEF PlainStates, StatusStates
<1>2. ASSUME p.state = "res_first_code" PROVE Plainly(FirstCode(p, c), p)
  BY <1>1, <1>2 DEF FirstCode, To, Fails, Sound, Held, ParserFields, Plainly, PlainStates, StatusStates
<1>3. ASSUME p.state = "res_code" PROVE Plainly(Code(p, c), p)
  <2> DEFINE code == p.code * 10 + Digits[c]
             more == [p EXCEPT !.code = code]
  <2>1. Code(p, c) \in {Fails(p, "status"), more, To(p, "res_status_start"),
                        To(p, "res_line_almost_done"), To(p, "field_start")}
    <3> HIDE DEF more
    <3> QED
      BY DEF Code, more
  <2> HIDE DEF code
  <2> QED
    BY <1>1, <1>3, <2>1
       DEF To, Fails, Sound, Held, ParserFields, Plainly, PlainStates, StatusStates, HeaderStates
<1> QED
  BY <1>2, <1>3, PlainlySound

(* The places where what is marked may be handed over. *)
LEMMA DeliverDoes ==
    ASSUME NEW p, Held(p), p.errno = "ok"
    PROVE  LET t == Deliver(p)
           IN /\ Held(t) /\ t.mark = "none" /\ t.errno = "ok"
              /\ t.state = p.state /\ t.hs = p.hs /\ t.flags = p.flags
              /\ t.length = p.length /\ t.nread = p.nread /\ t.upgrade = p.upgrade
BY DEF Deliver, Asserting, Held, ParserFields

(* A mark is set where none is, or the same again. *)
LEMMA MarkDoes ==
    ASSUME NEW p, Held(p), p.errno = "ok", NEW kind, p.mark \in {"none", kind}
    PROVE  /\ LET t == Mark(p, kind)
              IN /\ Held(t) /\ t.mark = kind /\ t.errno = "ok"
                 /\ t.state = p.state /\ t.hs = p.hs /\ t.flags = p.flags
                 /\ t.length = p.length /\ t.nread = p.nread /\ t.upgrade = p.upgrade
           /\ \A c :
              LET t == Take(Mark(p, kind), c)
              IN /\ Held(t) /\ t.mark = kind /\ t.errno = "ok"
                 /\ t.state = p.state /\ t.hs = p.hs /\ t.flags = p.flags
                 /\ t.length = p.length /\ t.nread = p.nread /\ t.upgrade = p.upgrade
<1>1. CASE p.mark = "none"
  BY <1>1 DEF Mark, Take, Held, ParserFields
<1>2. CASE p.mark # "none"
  BY <1>2 DEF Mark, Take, Asserting, Held, ParserFields
<1> QED
  BY <1>1, <1>2

(* A change of state changes nothing else. *)
LEMMA ToDoes ==
    ASSUME NEW p, Held(p), NEW s
    PROVE  LET t == To(p, s)
           IN /\ Held(t) /\ t.state = s /\ t.mark = p.mark /\ t.errno = p.errno
              /\ t.hs = p.hs /\ t.flags = p.flags
              /\ t.length = p.length /\ t.nread = p.nread /\ t.upgrade = p.upgrade
BY DEF To, Held, ParserFields

(* The end of a message, which no error precedes. *)
LEMMA MessageCompleteDoes ==
    ASSUME NEW p, Held(p), p.errno = "ok"
    PROVE  LET t == MessageComplete(p)
           IN /\ Held(t) /\ t.state \in {"start_res", "dead"} /\ t.mark = p.mark /\ t.errno = "ok"
              /\ t.flags = p.flags
              /\ t.length = p.length /\ t.nread = p.nread /\ t.upgrade = p.upgrade
<1> DEFINE s == NewMessage(p)
<1>1. s \in {"start_res", "dead"}
  BY DEF NewMessage
<1> HIDE DEF s
<1> DEFINE r == To(p, s)
           t == Asserting(r, p.errno = "ok")
<1>2. Held(r) /\ r.state = s /\ r.mark = p.mark /\ r.errno = p.errno /\ r.flags = p.flags
      /\ r.length = p.length /\ r.nread = p.nread /\ r.upgrade = p.upgrade
  BY ToDoes
<1> HIDE DEF r
<1>3. Held(t) /\ t.state = s /\ t.mark = p.mark /\ t.errno = p.errno /\ t.flags = p.flags
      /\ t.length = p.length /\ t.nread = p.nread /\ t.upgrade = p.upgrade
  BY <1>2 DEF Asserting, Held, ParserFields
<1>4. MessageComplete(p) = [t EXCEPT !.resp.complete = TRUE]
  BY DEF MessageComplete, t, r, s
<1> HIDE DEF t
<1> QED
  BY <1>1, <1>3, <1>4 DEF Held, ParserFields

(* The reason is marked while it is read and handed over at its end. *)
LEMMA StatusTextDoes ==
    ASSUME NEW p, Sound(p), p.errno = "ok", NEW c
    PROVE  /\ p.state = "res_status_start" => Between(StatusStart(p, c))
           /\ p.state = "res_status" => Between(StatusText(p, c))
<1>1. Held(p) /\ p.length \in 0 .. MaxLength /\ p.nread \in Nat
  BY DEF Sound, Relied
<1>2. ASSUME p.state = "res_status_start" PROVE Between(StatusStart(p, c))
  <2>1. p.mark = "none"
    BY <1>2, SoundPlain DEF PlainStates, StatusStates
  <2>2. \A s \in {"res_line_almost_done", "field_start"} : Between(To(p, s))
    <3>1. {"res_line_almost_done", "field_start"} \subseteq PlainStates
      BY DEF PlainStates, StatusStates, HeaderStates
    <3> QED
      BY <1>1, <2>1, <3>1, ToDoes, PlainIsSound
  <2> DEFINE r == To(p, "res_status")
             t == Take(Mark(r, "status"), c)
  <2>3. Held(r) /\ r.mark = "none" /\ r.errno = "ok" /\ r.state = "res_status"
        /\ r.length = p.length /\ r.nread = p.nread
    BY <1>1, <2>1, ToDoes
  <2> HIDE DEF r
  <2>4. Held(t) /\ t.mark = "status" /\ t.errno = "ok" /\ t.state = "res_status"
        /\ t.length = p.length /\ t.nread = p.nread
    BY <2>3, MarkDoes
  <2> HIDE DEF t
  <2>5. Between(t)
    BY <1>1, <2>4 DEF Between, Sound, Relied, StatusStates, ChunkStates, MarkIn
  <2> QED
    BY <2>2, <2>5 DEF StatusStart, t, r
<1>3. ASSUME p.state = "res_status" PROVE Between(StatusText(p, c))
  <2>1. p.mark \in {"none", "status"}
    BY <1>3 DEF Sound, Relied, MarkIn
  <2>2. \A s \in {"res_line_almost_done", "field_start"} : Between(Deliver(To(p, s)))
    <3>1. {"res_line_almost_done", "field_start"} \subseteq PlainStates
      BY DEF PlainStates, StatusStates, HeaderStates
    <3> QED
      BY <1>1, <3>1, ToDoes, DeliverDoes, PlainIsSound
  <2>3. Between(Take(p, c))
    BY <1>1, <1>3, <2>1 DEF Between, Sound, Held, Relied, StatusStates, ChunkStates, MarkIn, Take, ParserFields
  <2> QED
    BY <2>2, <2>3 DEF StatusText
<1> QED
  BY <1>2, <1>3

(* Where no mark is set. *)
Free(p) ==
    Held(p) /\ p.errno = "ok" /\ p.mark = "none" /\ p.length \in 0 .. MaxLength /\ p.nread \in Nat

(* A parser without a mark goes to a plain state. *)
LEMMA FreeGoes ==
    ASSUME NEW p, Free(p), NEW s
    PROVE  /\ Free(To(p, s)) /\ To(p, s).state = s
           /\ To(p, s).flags = p.flags /\ To(p, s).length = p.length /\ To(p, s).nread = p.nread
           /\ s \in PlainStates => Between(To(p, s))
BY ToDoes, PlainIsSound DEF Free

(* The end of a message, behind which an upgrade stops. *)
LEMMA MessageDoneDoes ==
    ASSUME NEW p, Free(p)
    PROVE  Between(MessageDone(p)) /\ Between(MessageComplete(p))
           /\ Between([MessageComplete(p) EXCEPT !.stop = TRUE])
<1> DEFINE t == MessageComplete(p)
<1>1. Held(t) /\ t.state \in {"start_res", "dead"} /\ t.mark = p.mark
      /\ t.length = p.length /\ t.nread = p.nread
  BY MessageCompleteDoes DEF Free
<1> HIDE DEF t
<1>2. {"start_res", "dead"} \subseteq PlainStates
  BY DEF PlainStates, StatusStates
<1>3. Between(t)
  BY <1>1, <1>2, PlainIsSound DEF Free
<1>4. \A x : Between([t EXCEPT !.stop = x])
  <2> TAKE x
  <2> DEFINE u == [t EXCEPT !.stop = x]
  <2>1. Held(u) /\ u.state = t.state /\ u.mark = t.mark
        /\ u.length = t.length /\ u.nread = t.nread
    BY <1>1 DEF Held, ParserFields
  <2> HIDE DEF u
  <2>2. Between(u)
    BY <1>1, <1>2, <2>1, PlainIsSound DEF Free
  <2> QED
    BY <2>2 DEF u
<1> QED
  BY <1>3, <1>4 DEF MessageDone, t

(* The end of the headers: the length and the chunked flag decide what follows. *)
LEMMA HeadersDoneDoes ==
    ASSUME NEW p, Free(p), NEW c
    PROVE  Between(HeadersDone(p, c))
<1> DEFINE r == [p EXCEPT !.nread = 0]
           t == HeadersDone(p, c)
<1>1. Free(r) /\ r.nread = 0
  BY DEF Free, Held, ParserFields
<1>2. Between(Fails(p, "strict"))
  BY FailsIsSound DEF Free
<1>3. t \in {Fails(p, "strict"), [MessageComplete(r) EXCEPT !.stop = TRUE], MessageComplete(r)}
      \/ ("chunked" \in r.flags /\ t = To(r, "chunk_size_start"))
      \/ (r.length \notin {0, MaxLength} /\ t = To(r, "body_identity"))
      \/ t = To(r, "body_identity_eof")
  <2> HIDE DEF r
  <2> QED
    BY DEF HeadersDone, r
<1> HIDE DEF r, t
<1>4. ASSUME "chunked" \in r.flags, t = To(r, "chunk_size_start") PROVE Between(t)
  <2>1. Free(t) /\ t.state = "chunk_size_start" /\ t.flags = r.flags /\ t.nread = 0
    BY <1>1, <1>4, FreeGoes
  <2> QED
    BY <1>4, <2>1 DEF Free, Between, Sound, Relied, BodyStates, ChunkStates
<1>5. ASSUME r.length \notin {0, MaxLength}, t = To(r, "body_identity") PROVE Between(t)
  <2>1. Free(t) /\ t.state = "body_identity" /\ t.length = r.length
    BY <1>1, <1>5, FreeGoes
  <2> QED
    BY <1>5, <2>1 DEF Free, Between, Sound, Relied, BodyStates, ChunkStates
<1>6. ASSUME t = To(r, "body_identity_eof") PROVE Between(t)
  <2>1. Free(t) /\ t.state = "body_identity_eof"
    BY <1>1, <1>6, FreeGoes
  <2> QED
    BY <2>1 DEF Free, Between, Sound, Relied, BodyStates, ChunkStates
<1>7. Between(t)
  BY <1>1, <1>2, <1>3, <1>4, <1>5, <1>6, MessageDoneDoes
<1> QED
  BY <1>7 DEF t

(* The line end behind the headers, or behind the trailer. *)
LEMMA HeadersAlmostDoneDoes ==
    ASSUME NEW p, Free(p), NEW c
    PROVE  Between(HeadersAlmostDone(p, c))
<1> DEFINE upgrade == {"upgrade", "c_upgrade"} \subseteq p.flags
           r == To(p, "headers_done")
           answer == SetHeadersComplete(r.resp)
           t == [r EXCEPT !.upgrade = upgrade, !.resp = answer]
<1>1. Free(r)
  BY FreeGoes
<1> HIDE DEF r, answer, upgrade
<1>2. Free(t)
  BY <1>1 DEF Free, Held, ParserFields
<1>3. \A e \in {"strict", "unexpected_length"} : Between(Fails(p, e))
  BY FailsIsSound DEF Free
<1>4. HeadersAlmostDone(p, c) \in {Fails(p, "strict"), MessageDone(p), Fails(p, "unexpected_length"),
                                  HeadersDone(t, c)}
  <2>1. HeadersAlmostDone(p, c) =
          CASE c # "LF" -> Fails(p, "strict")
            [] c = "LF" /\ "trailing" \in p.flags -> MessageDone(p)
            [] c = "LF" /\ {"chunked", "length"} \subseteq p.flags -> Fails(p, "unexpected_length")
            [] OTHER -> HeadersDone(t, c)
    BY DEF HeadersAlmostDone, t, r, upgrade, answer
  <2> HIDE DEF t
  <2> QED
    BY <2>1
<1> HIDE DEF t
<1> QED
  BY <1>2, <1>3, <1>4, MessageDoneDoes, HeadersDoneDoes

(* The kinds of header a name may become. *)
FieldKinds == {"general", "matching", "connection", "length", "encoding", "upgrade"}

(* A state in which a mark of its own may be set. *)
LEMMA NameIsSound ==
    \A p : Held(p) /\ p.state = "field" /\ p.mark \in {"none", "field"} /\ p.hs \in FieldKinds
             /\ p.length \in 0 .. MaxLength /\ p.nread \in Nat => Between(p)
BY DEF Between, Sound, Relied, StatusStates, HeaderStates, BodyStates, ChunkStates, MarkIn, FieldKinds

(* What a parser inside a value relies on. *)
LEMMA ValueIsSound ==
    \A p : Held(p) /\ p.state = "value" /\ p.mark \in {"none", "value"}
             /\ p.hs \notin {"connection", "encoding"} /\ (p.hs = "length" => p.length < MaxLength)
             /\ p.length \in 0 .. MaxLength /\ p.nread \in Nat => Between(p)
BY DEF Between, Sound, Relied, StatusStates, HeaderStates, BodyStates, ChunkStates, MarkIn

(* The first character of a header line. *)
LEMMA FieldStartDoes ==
    ASSUME NEW p, Free(p), NEW c
    PROVE  Between(FieldStart(p, c))
<1> DEFINE r == To(p, "field")
           u == Take(Mark(r, "field"), c)
           word == <<c>>
           hs == IF Prefix(<<c>>, FieldNames) THEN "matching" ELSE "general"
           t == [u EXCEPT !.word = word, !.hs = hs]
<1>1. Free(r) /\ r.state = "field"
  BY FreeGoes
<1> HIDE DEF r
<1>2. Held(u) /\ u.mark = "field" /\ u.errno = "ok" /\ u.state = "field"
      /\ u.length = r.length /\ u.nread = r.nread
  BY <1>1, MarkDoes DEF Free
<1> HIDE DEF u, word
<1>3. hs \in FieldKinds
  BY DEF FieldKinds
<1> HIDE DEF hs
<1>4. Held(t) /\ t.mark = "field" /\ t.errno = "ok" /\ t.state = "field" /\ t.hs = hs
      /\ t.length = r.length /\ t.nread = r.nread
  BY <1>2 DEF Held, ParserFields
<1>5. FieldStart(p, c) \in {To(p, "headers_almost_done"), HeadersAlmostDone(To(p, "headers_almost_done"), c),
                           Fails(p, "token"), t}
  BY DEF FieldStart, t, u, r, word, hs
<1> HIDE DEF t
<1>6. Between(t)
  BY <1>1, <1>3, <1>4, NameIsSound DEF Free
<1>7. Free(To(p, "headers_almost_done")) /\ Between(To(p, "headers_almost_done"))
  <2>1. "headers_almost_done" \in PlainStates
    BY DEF PlainStates, HeaderStates
  <2> QED
    BY <2>1, FreeGoes
<1>8. Between(Fails(p, "token"))
  BY FailsIsSound DEF Free
<1> QED
  BY <1>5, <1>6, <1>7, <1>8, HeadersAlmostDoneDoes

(* One more character of a name: the header state is one that a name may be in. *)
LEMMA FieldDoes ==
    ASSUME NEW p, Sound(p), p.errno = "ok", p.state = "field", NEW c
    PROVE  Between(Field(p, c))
<1>1. Held(p) /\ p.mark \in {"none", "field"} /\ p.hs \in FieldKinds
      /\ p.length \in 0 .. MaxLength /\ p.nread \in Nat
  BY DEF Sound, Relied, MarkIn, FieldKinds
<1> DEFINE w == Append(p.word, c)
           hs == CASE p.hs = "matching" -> IF Prefix(w, FieldNames) THEN FieldKind(w) ELSE "general"
                   [] OTHER -> "general"
           known == p.hs \in FieldKinds
           u == Asserting(p, known)
           v == Take(u, c)
           t == [v EXCEPT !.word = w, !.hs = hs, !.run = "checked"]
<1>2. hs \in FieldKinds
  BY DEF FieldKind, FieldKinds
<1>3. known = TRUE
  BY <1>1
<1> HIDE DEF w, hs, known
<1>4. Held(u) /\ u.state = p.state /\ u.mark = p.mark /\ u.length = p.length /\ u.nread = p.nread
  BY <1>1, <1>3 DEF Asserting, Held, ParserFields
<1> HIDE DEF u
<1>5. Held(v) /\ v.state = p.state /\ v.mark = p.mark /\ v.length = p.length /\ v.nread = p.nread
  BY <1>4 DEF Take, Held, ParserFields
<1> HIDE DEF v
<1>6. Held(t) /\ t.state = p.state /\ t.mark = p.mark /\ t.length = p.length /\ t.nread = p.nread
      /\ t.hs = hs
  BY <1>5 DEF Held, ParserFields
<1>7. Field(p, c) \in {t, Deliver(To(p, "discard_ws")), Fails(p, "token")}
  BY DEF Field, t, v, u, w, hs, known, FieldKinds
<1> HIDE DEF t
<1>8. Between(t)
  BY <1>1, <1>2, <1>6, NameIsSound
<1>9. Between(Deliver(To(p, "discard_ws")))
  <2>1. "discard_ws" \in PlainStates
    BY DEF PlainStates, HeaderStates
  <2> QED
    BY <1>1, <2>1, ToDoes, DeliverDoes, PlainIsSound
<1>10. Between(Fails(p, "token"))
  BY <1>1, FailsIsSound
<1> QED
  BY <1>7, <1>8, <1>9, <1>10

(* The value of a digit. *)
LEMMA DigitsAreSmall == \A c \in DOMAIN Digits : Digits[c] \in 0 .. 4
BY DEF Digits

(* The value of a hexadecimal digit. *)
LEMMA HexAreSmall == \A c \in DOMAIN Hex : Hex[c] \in 0 .. 10
BY DigitsAreSmall DEF Hex

(* The first character of a value leaves no header state the value may not be in. *)
LEMMA ValueStartDoes ==
    ASSUME NEW p, Free(p), NEW c
    PROVE  Between(ValueStart(p, c))
<1> DEFINE r == To(p, "value")
           u == Take(Mark(r, "value"), c)
           word == <<c>>
           v == [u EXCEPT !.word = word]
<1>1. Free(r) /\ r.state = "value" /\ r.length = p.length /\ r.nread = p.nread
  BY FreeGoes
<1> HIDE DEF r
<1>2. Held(u) /\ u.mark = "value" /\ u.errno = "ok" /\ u.state = "value"
      /\ u.length = r.length /\ u.nread = r.nread
  BY <1>1, MarkDoes DEF Free
<1> HIDE DEF u, word
<1>3. Held(v) /\ v.mark = "value" /\ v.errno = "ok" /\ v.state = "value" /\ v.hs = u.hs
      /\ v.length = p.length /\ v.nread = p.nread
  BY <1>1, <1>2 DEF Held, ParserFields
<1>4. u.hs = p.hs
  BY ToDoes, MarkDoes, <1>1 DEF u, r, Free
<1> HIDE DEF v
<1>5. p.length \in 0 .. MaxLength /\ p.nread \in Nat
  BY DEF Free
<1>6. \A hs, flags : hs \notin {"connection", "encoding", "length"} =>
         Between([v EXCEPT !.hs = hs]) /\ Between([v EXCEPT !.flags = flags, !.hs = hs])
  <2> TAKE hs, flags
  <2> HAVE hs \notin {"connection", "encoding", "length"}
  <2> DEFINE t == [v EXCEPT !.hs = hs]
             t2 == [v EXCEPT !.flags = flags, !.hs = hs]
  <2>1. Held(t) /\ t.state = "value" /\ t.mark = "value" /\ t.hs = hs /\ t.length = p.length /\ t.nread = p.nread
    BY <1>3 DEF Held, ParserFields
  <2>2. Held(t2) /\ t2.state = "value" /\ t2.mark = "value" /\ t2.hs = hs /\ t2.length = p.length /\ t2.nread = p.nread
    BY <1>3 DEF Held, ParserFields
  <2> HIDE DEF t, t2
  <2>3. Between(t) /\ Between(t2)
    BY <1>5, <2>1, <2>2, ValueIsSound
  <2> QED
    BY <2>3 DEF t, t2
<1> DEFINE upgraded == v.flags \cup {"upgrade"}
           counted == v.flags \cup {"length"}
           n == Digits[c]
           t1 == [v EXCEPT !.flags = upgraded, !.hs = "general"]
           t2 == [v EXCEPT !.hs = IF Prefix(<<c>>, {Chunked}) THEN "matching_chunked" ELSE "general"]
           t3 == [v EXCEPT !.flags = counted, !.length = n]
           t4 == [v EXCEPT !.hs = IF Prefix(<<c>>, TokenNames) THEN "matching_token" ELSE "token"]
           t5 == [v EXCEPT !.hs = "general"]
<1>7. ValueStart(p, c) =
        CASE p.hs = "upgrade" -> t1
          [] p.hs = "encoding" -> t2
          [] p.hs = "length" ->
               CASE ~IsNum(c) -> Fails(v, "length")
                 [] IsNum(c) /\ "length" \in p.flags -> Fails(v, "unexpected_length")
                 [] OTHER -> t3
          [] p.hs = "connection" -> t4
          [] p.hs = "token_start" -> v
          [] OTHER -> t5
  BY DEF ValueStart, v, u, r, word
<1>8. Between(t1) /\ Between(t2) /\ Between(t4) /\ Between(t5)
  <2> HIDE DEF upgraded
  <2> QED
    BY <1>6
<1>9. ASSUME p.hs = "length", IsNum(c) PROVE Between(t3)
  <2>1. n \in 0 .. MaxLength /\ n < MaxLength
    BY <1>9, DigitsAreSmall, HttpAssumption DEF IsNum
  <2> HIDE DEF n, counted
  <2>2. Held(t3) /\ t3.state = "value" /\ t3.mark = "value" /\ t3.hs = "length" /\ t3.length = n
        /\ t3.nread = p.nread
    BY <1>3, <1>4, <1>9 DEF Held, ParserFields
  <2> QED
    BY <1>5, <2>1, <2>2, ValueIsSound
<1>10. ASSUME p.hs = "token_start" PROVE Between(v)
  BY <1>3, <1>4, <1>5, <1>10, ValueIsSound
<1>11. Between(Fails(v, "length")) /\ Between(Fails(v, "unexpected_length"))
  BY <1>3, FailsIsSound
<1> HIDE DEF t1, t2, t3, t4, t5
<1> QED
  BY <1>7, <1>8, <1>9, <1>10, <1>11

(* One more character of a value. *)
LEMMA ValueStateDoes ==
    ASSUME NEW p, Sound(p), p.errno = "ok", p.state = "value", NEW c
    PROVE  LET t == ValueState(p, c)
           IN /\ Held(t) /\ t.state = "value" /\ t.mark = p.mark
              /\ t.errno = "ok" => /\ t.hs \notin {"connection", "encoding"}
                                   /\ t.hs = "length" => t.length < MaxLength
                                   /\ t.length \in 0 .. MaxLength /\ t.nread = p.nread
<1>1. Held(p) /\ p.mark \in {"none", "value"} /\ p.hs \notin {"connection", "encoding"}
      /\ (p.hs = "length" => p.length < MaxLength)
      /\ p.length \in 0 .. MaxLength /\ p.nread \in Nat
  BY DEF Sound, Relied, MarkIn
<1> DEFINE Good(t) == /\ Held(t) /\ t.state = "value" /\ t.mark = p.mark
                      /\ t.errno = "ok" => /\ t.hs \notin {"connection", "encoding"}
                                           /\ t.hs = "length" => t.length < MaxLength
                                           /\ t.length \in 0 .. MaxLength /\ t.nread = p.nread
           w == Append(p.word, c)
<1>2. Good(p) /\ Good(Fails(p, "length"))
  BY <1>1 DEF Fails, Held, ParserFields
<1>3. \A hs, word, flags : hs \notin {"connection", "encoding", "length"} =>
         /\ Good([p EXCEPT !.hs = hs])
         /\ Good([p EXCEPT !.word = word, !.hs = hs])
         /\ Good([p EXCEPT !.hs = hs, !.word = word])
         /\ Good([p EXCEPT !.flags = flags, !.hs = hs, !.word = word])
  BY <1>1 DEF Held, ParserFields
<1>4. ASSUME p.hs = "length", IsNum(c), ~((MaxLength - 10) \div 10 < p.length)
      PROVE  Good([p EXCEPT !.length = @ * 10 + Digits[c]])
  <2> DEFINE d == Digits[c]
             n == p.length * 10 + d
             t == [p EXCEPT !.length = n]
  <2>1. d \in 0 .. 4
    BY <1>4, DigitsAreSmall DEF IsNum
  <2> HIDE DEF d
  <2>2. n \in 0 .. MaxLength /\ n < MaxLength
    BY <1>1, <1>4, <2>1, HttpAssumption
  <2> HIDE DEF n
  <2>3. Good(t)
    BY <1>1, <2>2 DEF Held, ParserFields
  <2> QED
    BY <2>3 DEF n, d
<1> HIDE DEF Good
<1> DEFINE more == [p EXCEPT !.length = @ * 10 + Digits[c]]
           is == p.hs \in {"is_keepalive", "is_close", "is_upgrade"}
           t == ValueState(p, c)
<1>5. ASSUME p.hs = "length" PROVE Good(t)
  <2>1. t = CASE c = " " -> p
              [] c # " " /\ ~IsNum(c) -> Fails(p, "length")
              [] OTHER -> IF (MaxLength - 10) \div 10 < p.length THEN Fails(p, "length") ELSE more
    BY <1>5 DEF ValueState
  <2> HIDE DEF t, more
  <2> QED
    BY <1>2, <1>4, <1>5, <2>1 DEF more
<1>6. ASSUME p.hs = "matching_chunked" PROVE Good(t)
  <2> DEFINE hs == CASE w = Chunked -> "is_chunked"
                     [] w # Chunked /\ Prefix(w, {Chunked}) -> p.hs
                     [] OTHER -> "general"
  <2>1. t = [p EXCEPT !.word = w, !.hs = hs]
    BY <1>6 DEF ValueState
  <2>2. hs \notin {"connection", "encoding", "length"}
    BY <1>6
  <2> HIDE DEF hs, w, t
  <2> QED
    BY <1>3, <2>1, <2>2
<1>7. ASSUME p.hs = "is_chunked" PROVE Good(t)
  <2>1. t = IF c = " " THEN p ELSE [p EXCEPT !.hs = "general"]
    BY <1>7 DEF ValueState
  <2> HIDE DEF t
  <2> QED
    BY <1>2, <1>3, <2>1
<1>8. ASSUME p.hs = "token_start" PROVE Good(t)
  <2>1. t = CASE Prefix(<<c>>, TokenNames) -> [p EXCEPT !.word = <<c>>, !.hs = "matching_token"]
              [] ~Prefix(<<c>>, TokenNames) /\ Token(c) -> [p EXCEPT !.hs = "token"]
              [] c = " " -> p
              [] OTHER -> [p EXCEPT !.hs = "general"]
    BY <1>8 DEF ValueState
  <2>2. Good([p EXCEPT !.word = <<c>>, !.hs = "matching_token"])
        /\ Good([p EXCEPT !.hs = "token"]) /\ Good([p EXCEPT !.hs = "general"])
    BY <1>3
  <2> HIDE DEF t
  <2>3. t \in {[p EXCEPT !.word = <<c>>, !.hs = "matching_token"], [p EXCEPT !.hs = "token"], p,
               [p EXCEPT !.hs = "general"]}
    BY <2>1
  <2> QED
    BY <1>2, <2>2, <2>3
<1>9. ASSUME p.hs = "matching_token" PROVE Good(t)
  <2> DEFINE hs == IF Prefix(w, TokenNames) THEN TokenKind(w) ELSE "token"
  <2>1. t = [p EXCEPT !.word = w, !.hs = hs]
    BY <1>9 DEF ValueState
  <2>2. hs \notin {"connection", "encoding", "length"}
    BY DEF TokenKind
  <2> HIDE DEF hs, w, t
  <2> QED
    BY <1>3, <2>1, <2>2
<1>10. ASSUME p.hs = "token" PROVE Good(t)
  <2>1. t = IF c = "," THEN [p EXCEPT !.hs = "token_start", !.word = <<>>] ELSE p
    BY <1>10 DEF ValueState
  <2> HIDE DEF t
  <2> QED
    BY <1>2, <1>3, <2>1
<1>11. ASSUME is PROVE Good(t)
  <2> DEFINE flags == p.flags \cup FlagOf(p.hs)
  <2>1. t = CASE c = "," -> [p EXCEPT !.flags = flags, !.hs = "token_start", !.word = <<>>]
              [] c = " " -> p
              [] OTHER -> [p EXCEPT !.hs = "token"]
    BY <1>11 DEF ValueState
  <2> HIDE DEF t, flags
  <2> QED
    BY <1>2, <1>3, <2>1
<1>12. ASSUME p.hs \notin {"length", "matching_chunked", "is_chunked", "token_start", "matching_token", "token"},
             ~is
       PROVE  Good(t)
  <2>1. t = [p EXCEPT !.hs = "general"]
    BY <1>1, <1>12 DEF ValueState
  <2> HIDE DEF t
  <2> QED
    BY <1>3, <2>1
<1>13. Good(t)
  BY <1>5, <1>6, <1>7, <1>8, <1>9, <1>10, <1>11, <1>12
<1> QED
  BY <1>13 DEF Good

(* One more character of a value. *)
LEMMA ValueCharDoes ==
    ASSUME NEW p, Sound(p), p.errno = "ok", p.state = "value", NEW c
    PROVE  Between(ValueChar(p, c))
<1>1. Held(p) /\ p.mark \in {"none", "value"} /\ p.hs \notin {"connection", "encoding"}
      /\ (p.hs = "length" => p.length < MaxLength)
      /\ p.length \in 0 .. MaxLength /\ p.nread \in Nat
  BY DEF Sound, Relied, MarkIn
<1> DEFINE v == ValueState(p, c)
           u == Take(v, c)
           run == IF p.hs = "general" THEN "blind" ELSE "checked"
           t == [u EXCEPT !.run = run]
           blind == Take(p, c)
<1>2. Held(v) /\ v.state = "value" /\ v.mark = p.mark
      /\ (v.errno = "ok" => /\ v.hs \notin {"connection", "encoding"}
                            /\ v.hs = "length" => v.length < MaxLength
                            /\ v.length \in 0 .. MaxLength /\ v.nread = p.nread)
  BY ValueStateDoes
<1> HIDE DEF v
<1>3. Held(u) /\ u.state = "value" /\ u.mark = p.mark /\ u.errno = v.errno /\ u.hs = v.hs
      /\ u.length = v.length /\ u.nread = v.nread
  BY <1>2 DEF Take, Held, ParserFields
<1> HIDE DEF u, run
<1>4. Held(t) /\ t.state = "value" /\ t.mark = p.mark /\ t.errno = v.errno /\ t.hs = v.hs
      /\ t.length = v.length /\ t.nread = v.nread
  BY <1>3 DEF Held, ParserFields
<1>5. Held(blind) /\ blind.state = "value" /\ blind.mark = p.mark /\ blind.hs = p.hs
      /\ blind.length = p.length /\ blind.nread = p.nread
  BY <1>1 DEF Take, Held, ParserFields
<1>6. ValueChar(p, c) \in {blind, Fails(p, "token"), t}
  BY DEF ValueChar, blind, t, u, v, run
<1> HIDE DEF t, blind
<1>7. Between(blind)
  BY <1>1, <1>5, ValueIsSound
<1>8. Between(t)
  <2>1. CASE t.errno = "ok"
    BY <1>1, <1>2, <1>4, <2>1, ValueIsSound
  <2>2. CASE t.errno # "ok"
    BY <1>4, <2>2 DEF Between, Sound
  <2> QED
    BY <2>1, <2>2
<1>9. Between(Fails(p, "token"))
  BY <1>1, FailsIsSound
<1> QED
  BY <1>6, <1>7, <1>8, <1>9

(* The line end behind a value. *)
LEMMA AlmostDoneDoes ==
    ASSUME NEW p, Free(p), NEW c
    PROVE  Between(AlmostDone(p, c))
<1>1. "value_lws" \in PlainStates
  BY DEF PlainStates, HeaderStates
<1>2. Between(To(p, "value_lws")) /\ Between(Fails(p, "lf_expected"))
  BY <1>1, FreeGoes, FailsIsSound DEF Free
<1> QED
  BY <1>2 DEF AlmostDone

(* A character in a value, or its end. *)
LEMMA ValueDoes ==
    ASSUME NEW p, Sound(p), p.errno = "ok", p.state = "value", NEW c
    PROVE  Between(Value(p, c))
<1> DEFINE t == Deliver(To(p, "almost_done"))
<1>1. Held(p) /\ p.length \in 0 .. MaxLength /\ p.nread \in Nat
  BY DEF Sound, Relied
<1>2. Free(t) /\ t.state = "almost_done"
  BY <1>1, ToDoes, DeliverDoes DEF Free
<1>3. Value(p, c) \in {t, AlmostDone(t, c), ValueChar(p, c)}
  BY DEF Value
<1> HIDE DEF t
<1>4. "almost_done" \in PlainStates
  BY DEF PlainStates, HeaderStates
<1>5. Between(t)
  BY <1>2, <1>4, PlainIsSound DEF Free
<1> QED
  BY <1>2, <1>3, <1>5, AlmostDoneDoes, ValueCharDoes

(* The flags are free to change where no body is read. *)
LEMMA FlagsAreFree ==
    ASSUME NEW p, Free(p), NEW flags
    PROVE  Free([p EXCEPT !.flags = flags])
BY DEF Free, Held, ParserFields

(* The line behind a value goes on with it or starts a new header. *)
LEMMA LwsDoes ==
    ASSUME NEW p, Free(p), NEW c
    PROVE  Between(ValueLws(p, c)) /\ Between(DiscardLws(p, c))
<1> DEFINE r == To(p, "field_start")
           flags == r.flags \cup FlagOf(p.hs)
           t == [r EXCEPT !.flags = flags]
           u == Mark(t, "value")
           d == Deliver(u)
<1>1. Free(r) /\ Free(To(p, "value_start")) /\ Between(To(p, "discard_ws"))
  <2>1. "discard_ws" \in PlainStates
    BY DEF PlainStates, HeaderStates
  <2> QED
    BY <2>1, FreeGoes
<1> HIDE DEF r, flags
<1>2. Free(t)
  BY <1>1, FlagsAreFree
<1> HIDE DEF t
<1>3. Free(d)
  <2>1. Held(u) /\ u.errno = "ok" /\ u.length = t.length /\ u.nread = t.nread
    BY <1>2, MarkDoes DEF Free
  <2> HIDE DEF u
  <2> QED
    BY <1>2, <2>1, DeliverDoes DEF Free
<1>4. ValueLws(p, c) \in {ValueStart(To(p, "value_start"), c), FieldStart(t, c)}
  BY DEF ValueLws, t, r, flags
<1>5. DiscardLws(p, c) \in {To(p, "discard_ws"), FieldStart(d, c)}
  BY DEF DiscardLws, d, u, t, r, flags
<1> QED
  BY <1>1, <1>2, <1>3, <1>4, <1>5, ValueStartDoes, FieldStartDoes

(* White space before a value. *)
LEMMA DiscardWsDoes ==
    ASSUME NEW p, Free(p), p.state = "discard_ws", NEW c
    PROVE  Between(DiscardWs(p, c))
<1>1. {"discard_ws", "discard_ws_almost_done", "discard_lws"} \subseteq PlainStates
  BY DEF PlainStates, HeaderStates
<1>2. Between(p) /\ Between(To(p, "discard_ws_almost_done")) /\ Between(To(p, "discard_lws"))
  BY <1>1, FreeGoes, PlainIsSound DEF Free
<1>3. DiscardWs(p, c) \in {p, To(p, "discard_ws_almost_done"), To(p, "discard_lws"), ValueStart(p, c)}
  BY DEF DiscardWs
<1> QED
  BY <1>2, <1>3, ValueStartDoes

(* Sound and plain is free. *)
LEMMA PlainIsFree ==
    ASSUME NEW p, Sound(p), p.errno = "ok", p.state \in PlainStates
    PROVE  Free(p)
BY SoundPlain DEF Free, Sound

(* Any character in the headers. *)
LEMMA HeaderDoes ==
    ASSUME NEW p, Sound(p), p.errno = "ok", p.state \in HeaderStates, NEW c
    PROVE  Between(Header(p, c))
<1>1. CASE p.state = "field"
  BY <1>1, FieldDoes DEF Header
<1>2. CASE p.state = "value"
  BY <1>2, ValueDoes DEF Header
<1>3. CASE p.state \notin {"field", "value"}
  <2>1. Free(p)
    <3>1. p.state \in PlainStates
      BY <1>3 DEF PlainStates, HeaderStates
    <3> QED
      BY <3>1, PlainIsFree
  <2>2. /\ Between(FieldStart(p, c)) /\ Between(AlmostDone(p, c))
        /\ Between(ValueLws(p, c)) /\ Between(DiscardLws(p, c)) /\ Between(HeadersAlmostDone(p, c))
    BY <2>1, FieldStartDoes, AlmostDoneDoes, LwsDoes, HeadersAlmostDoneDoes
  <2>3. Between(Constant(p, c, "LF", "discard_lws"))
    <3>1. "discard_lws" \in PlainStates
      BY DEF PlainStates, HeaderStates
    <3> QED
      BY <2>1, <3>1, ConstantDoes DEF Free
  <2>4. p.state = "discard_ws" => Between(DiscardWs(p, c))
    BY <2>1, DiscardWsDoes
  <2> QED
    BY <1>3, <2>2, <2>3, <2>4 DEF Header, HeaderStates
<1> QED
  BY <1>1, <1>2, <1>3

(* Any character in the status line. *)
LEMMA StatusLineDoes ==
    ASSUME NEW p, Sound(p), p.errno = "ok", p.state \in StatusStates, NEW c
    PROVE  Between(StatusLine(p, c))
<1>1. CASE p.state = "res_status"
  BY <1>1, StatusTextDoes DEF StatusLine
<1>2. CASE p.state # "res_status"
  <2>1. p.mark = "none"
    <3>1. p.state \in PlainStates
      BY <1>2 DEF PlainStates, StatusStates
    <3> QED
      BY <3>1, PlainIsFree DEF Free
  <2>2. \A e, s : s \in {"res_HT", "res_HTT", "res_HTTP", "res_first_major", "field_start"} =>
                    Between(Constant(p, c, e, s))
    <3>1. {"res_HT", "res_HTT", "res_HTTP", "res_first_major", "field_start"} \subseteq PlainStates
      BY DEF PlainStates, StatusStates, HeaderStates
    <3> QED
      BY <2>1, <3>1, ConstantDoes
  <2>3. CASE p.state \in {"start_res", "res_first_major", "res_major", "res_first_minor", "res_minor"}
    BY <2>3, StartResDoes, VersionDoes DEF StatusLine
  <2>4. CASE p.state \in {"res_first_code", "res_code", "res_status_start"}
    BY <2>4, CodeDoes, StatusTextDoes DEF StatusLine
  <2>5. CASE p.state \in {"res_H", "res_HT", "res_HTT", "res_HTTP", "res_line_almost_done"}
    BY <2>5, <2>2 DEF StatusLine
  <2> QED
    BY <1>2, <2>3, <2>4, <2>5 DEF StatusStates
<1> QED
  BY <1>1, <1>2

(* The last character of a body ends its message. *)
LEMMA MessageEnds ==
    ASSUME NEW p, Held(p), p.errno = "ok", p.length \in 0 .. MaxLength, p.nread \in Nat, NEW s
    PROVE  Between(MessageDone(Deliver(To(p, s))))
<1> DEFINE t == Deliver(To(p, s))
<1>1. Free(t)
  BY ToDoes, DeliverDoes DEF Free
<1> HIDE DEF t
<1>2. Between(MessageDone(t))
  BY <1>1, MessageDoneDoes
<1> QED
  BY <1>2 DEF t

(* A character of a body is taken. *)
LEMMA BodyDoes ==
    ASSUME NEW p, Held(p), p.errno = "ok", p.state \in BodyStates, p.mark \in {"none", "body"},
           p.length \in 1 .. MaxLength - 1, p.nread \in Nat, NEW c,
           p.state \in ChunkStates => "chunked" \in p.flags
    PROVE  LET t == [Take(Mark(p, "body"), c) EXCEPT !.length = @ - 1]
           IN /\ Held(t) /\ t.errno = "ok" /\ t.mark = "body" /\ t.state = p.state /\ t.flags = p.flags
              /\ t.length = p.length - 1 /\ t.length \in 0 .. MaxLength - 2 /\ t.nread = p.nread
<1> DEFINE u == Take(Mark(p, "body"), c)
           t == [u EXCEPT !.length = @ - 1]
<1>1. Held(u) /\ u.errno = "ok" /\ u.mark = "body" /\ u.state = p.state /\ u.flags = p.flags
      /\ u.length = p.length /\ u.nread = p.nread
  BY MarkDoes
<1> HIDE DEF u
<1>2. Held(t) /\ t.errno = "ok" /\ t.mark = "body" /\ t.state = p.state /\ t.flags = p.flags
      /\ t.length = p.length - 1 /\ t.nread = p.nread
  BY <1>1 DEF Held, ParserFields
<1>3. p.length - 1 \in 0 .. MaxLength - 2
  BY HttpAssumption
<1> HIDE DEF t
<1>4. Held(t) /\ t.errno = "ok" /\ t.mark = "body" /\ t.state = p.state /\ t.flags = p.flags
      /\ t.length = p.length - 1 /\ t.length \in 0 .. MaxLength - 2 /\ t.nread = p.nread
  BY <1>2, <1>3
<1> QED
  BY <1>4 DEF t, u

(* An assertion that holds leaves everything else as it is. *)
LEMMA HoldsKeeps ==
    ASSUME NEW p, Held(p), NEW a, a
    PROVE  LET t == Asserting(p, a)
           IN /\ Held(t) /\ t.state = p.state /\ t.hs = p.hs /\ t.flags = p.flags /\ t.mark = p.mark
              /\ t.length = p.length /\ t.nread = p.nread /\ t.errno = p.errno /\ t.upgrade = p.upgrade
              /\ Sound(p) => Sound(t)
<1> DEFINE t == Asserting(p, a)
<1>1. Held(t) /\ t.state = p.state /\ t.hs = p.hs /\ t.flags = p.flags /\ t.mark = p.mark
      /\ t.length = p.length /\ t.nread = p.nread /\ t.errno = p.errno /\ t.upgrade = p.upgrade
  BY DEF Asserting, Held, ParserFields
<1> HIDE DEF t
<1>2. Sound(p) => Sound(t)
  BY <1>1 DEF Sound, Relied
<1>3. /\ Held(t) /\ t.state = p.state /\ t.hs = p.hs /\ t.flags = p.flags /\ t.mark = p.mark
      /\ t.length = p.length /\ t.nread = p.nread /\ t.errno = p.errno /\ t.upgrade = p.upgrade
      /\ Sound(p) => Sound(t)
  BY <1>1, <1>2
<1> QED
  BY <1>3 DEF t

(* A body of a known length is never read beyond it. *)
LEMMA BodyIdentityDoes ==
    ASSUME NEW p0, Sound(p0), p0.errno = "ok", p0.state = "body_identity", NEW c
    PROVE  Between(BodyIdentity(p0, c))
<1> DEFINE held == p0.length \notin {0, MaxLength}
           p == Asserting(p0, held)
           t == [Take(Mark(p, "body"), c) EXCEPT !.length = @ - 1]
<1>1. Sound(p) /\ p.errno = "ok" /\ p.state = "body_identity"
  <2>1. Held(p0) /\ held
    BY DEF Sound, Relied
  <2> QED
    BY <2>1, HoldsKeeps
<1>2. BodyIdentity(p0, c) =
        IF t.length = 0 THEN MessageDone(Deliver(To(t, "message_done"))) ELSE t
  BY DEF BodyIdentity
<1> HIDE DEF p
<1>3. /\ Held(p) /\ p.mark \in {"none", "body"} /\ p.length \in 1 .. MaxLength - 1 /\ p.nread \in Nat
  BY <1>1, HttpAssumption DEF Sound, Relied, MarkIn
<1>4. p.state \in BodyStates /\ p.state \notin ChunkStates
  BY <1>1 DEF BodyStates, ChunkStates
<1>5. /\ Held(t) /\ t.errno = "ok" /\ t.mark = "body" /\ t.state = "body_identity"
      /\ t.length \in 0 .. MaxLength - 2 /\ t.nread = p.nread
  BY <1>1, <1>3, <1>4, BodyDoes
<1> HIDE DEF t
<1>6. t.length \in 0 .. MaxLength /\ t.length # MaxLength
  BY <1>5, HttpAssumption
<1>7. Between(MessageDone(Deliver(To(t, "message_done"))))
  BY <1>3, <1>5, <1>6, MessageEnds
<1>8. t.length # 0 => Between(t)
  BY <1>3, <1>5, <1>6 DEF Between, Sound, Relied, BodyStates, ChunkStates, MarkIn
<1> QED
  BY <1>2, <1>7, <1>8

(* A chunk is never read beyond its length. *)
LEMMA ChunkDataDoes ==
    ASSUME NEW p0, Sound(p0), p0.errno = "ok", p0.state = "chunk_data", NEW c
    PROVE  Between(ChunkData(p0, c))
<1> DEFINE held == p0.length \notin {0, MaxLength}
           p == Asserting(p0, held)
           t == [Take(Mark(p, "body"), c) EXCEPT !.length = @ - 1]
           u == To(t, "chunk_data_almost_done")
<1>1. Sound(p) /\ p.errno = "ok" /\ p.state = "chunk_data"
  <2>1. Held(p0) /\ held
    BY DEF Sound, Relied
  <2> QED
    BY <2>1, HoldsKeeps
<1>2. ChunkData(p0, c) = IF t.length = 0 THEN u ELSE t
  BY DEF ChunkData
<1> HIDE DEF p
<1>3. /\ Held(p) /\ p.mark \in {"none", "body"} /\ p.length \in 1 .. MaxLength - 1 /\ p.nread \in Nat
      /\ p.state \in ChunkStates /\ "chunked" \in p.flags
  BY <1>1, HttpAssumption DEF Sound, Relied, MarkIn, ChunkStates
<1>4. /\ Held(t) /\ t.errno = "ok" /\ t.mark = "body" /\ t.state = "chunk_data" /\ "chunked" \in t.flags
      /\ t.length \in 0 .. MaxLength - 2 /\ t.nread = p.nread
  BY <1>1, <1>3, BodyDoes DEF BodyStates
<1> HIDE DEF t
<1>5. t.length \in 0 .. MaxLength /\ t.length # MaxLength
  BY <1>4, HttpAssumption
<1>6. Held(u) /\ u.errno = "ok" /\ u.mark = "body" /\ u.state = "chunk_data_almost_done"
      /\ "chunked" \in u.flags /\ u.length = t.length /\ u.nread = p.nread
  BY <1>4, ToDoes
<1> HIDE DEF u
<1>7. t.length = 0 => Between(u)
  BY <1>3, <1>5, <1>6 DEF Between, Sound, Relied, BodyStates, ChunkStates, MarkIn
<1>8. t.length # 0 => Between(t)
  BY <1>3, <1>4, <1>5 DEF Between, Sound, Relied, BodyStates, ChunkStates, MarkIn
<1> QED
  BY <1>2, <1>7, <1>8

(* The states of a chunk's head. *)
LEMMA ChunkIsSound ==
    \A p : /\ Held(p) /\ p.mark = "none" /\ "chunked" \in p.flags /\ p.nread \in Nat
           /\ \/ /\ p.state \in {"chunk_size", "chunk_parameters", "chunk_size_almost_done"}
                 /\ p.length \in 0 .. MaxLength - 1
              \/ p.state = "chunk_data" /\ p.length \in 1 .. MaxLength - 1
              \/ p.state = "chunk_data_done" /\ p.length \in 0 .. MaxLength
              \/ p.state = "chunk_size_start" /\ p.length \in 0 .. MaxLength /\ p.nread = 0
           => Between(p)
BY HttpAssumption DEF Between, Sound, Relied, BodyStates, ChunkStates

(* The digits of the size of a chunk never reach the value for "no length". *)
LEMMA ChunkSizeDoes ==
    ASSUME NEW p, Sound(p), p.errno = "ok", NEW c
    PROVE  /\ p.state = "chunk_size_start" /\ p.nread = 1 => Between(ChunkSizeStart(p, c))
           /\ p.state = "chunk_size" => Between(ChunkSize(p, c))
           /\ p.state = "chunk_parameters" =>
                 Between(IF c = "CR" THEN To(p, "chunk_size_almost_done") ELSE p)
<1>1. ASSUME p.state \in {"chunk_size_start", "chunk_size", "chunk_parameters"}
      PROVE  Held(p) /\ p.mark = "none" /\ "chunked" \in p.flags /\ p.nread \in Nat
             /\ p.length \in 0 .. MaxLength /\ (p.state # "chunk_size_start" => p.length \in 0 .. MaxLength - 1)
  BY <1>1, HttpAssumption DEF Sound, Relied, MarkIn, ChunkStates
<1>2. ASSUME p.state = "chunk_size_start", p.nread = 1 PROVE Between(ChunkSizeStart(p, c))
  <2> DEFINE held == p.nread = 1
             r == Asserting(p, held)
             u == To(r, "chunk_size")
             n == Hex[c]
             t == [u EXCEPT !.length = n]
  <2>1. held = TRUE
    BY <1>2
  <2> HIDE DEF held
  <2>2. Held(r) /\ r.mark = "none" /\ r.errno = "ok" /\ r.flags = p.flags /\ r.nread = p.nread
    BY <1>1, <1>2, <2>1, HoldsKeeps
  <2> HIDE DEF r
  <2>3. Held(u) /\ u.mark = "none" /\ u.state = "chunk_size" /\ u.flags = p.flags /\ u.nread = p.nread
    BY <2>2, ToDoes
  <2>4. ChunkSizeStart(p, c) = IF c \in DOMAIN Hex THEN t ELSE Fails(r, "chunk_size")
    BY DEF ChunkSizeStart, r, held
  <2> HIDE DEF u
  <2>5. ASSUME c \in DOMAIN Hex PROVE Between(t)
    <3>1. n \in 0 .. MaxLength - 1
      BY <2>5, HexAreSmall, HttpAssumption
    <3> HIDE DEF n
    <3>2. Held(t) /\ t.mark = "none" /\ t.state = "chunk_size" /\ t.flags = p.flags /\ t.nread = p.nread
          /\ t.length = n
      BY <2>3 DEF Held, ParserFields
    <3> HIDE DEF t
    <3> QED
      BY <1>1, <1>2, <3>1, <3>2, ChunkIsSound
  <2> HIDE DEF t
  <2>6. Between(Fails(r, "chunk_size"))
    BY <2>2, FailsIsSound
  <2> QED
    BY <2>4, <2>5, <2>6
<1>3. ASSUME p.state \in {"chunk_size", "chunk_parameters"}, NEW s \in {"chunk_size_almost_done", "chunk_parameters"}
      PROVE  Between(To(p, s)) /\ Between(p)
  <2> DEFINE t == To(p, s)
  <2>1. Held(t) /\ t.mark = "none" /\ t.state = s /\ t.flags = p.flags /\ t.nread = p.nread /\ t.length = p.length
    BY <1>1, <1>3, ToDoes
  <2> HIDE DEF t
  <2>2. Between(t) /\ Between(p)
    BY <1>1, <1>3, <2>1, ChunkIsSound
  <2> QED
    BY <2>2 DEF t
<1>4. ASSUME p.state = "chunk_size" PROVE Between(ChunkSize(p, c))
  <2> DEFINE d == Hex[c]
             n == p.length * 16 + d
             t == [p EXCEPT !.length = n]
  <2>1. ASSUME c \in DOMAIN Hex, ~((MaxLength - 16) \div 16 < p.length) PROVE Between(t)
    <3>1. d \in 0 .. 10
      BY <2>1, HexAreSmall
    <3> HIDE DEF d
    <3>2. n \in 0 .. MaxLength - 1
      BY <1>1, <1>4, <2>1, <3>1, HttpAssumption
    <3> HIDE DEF n
    <3>3. Held(t) /\ t.mark = "none" /\ t.state = "chunk_size" /\ t.flags = p.flags /\ t.nread = p.nread
          /\ t.length = n
      BY <1>1, <1>4 DEF Held, ParserFields
    <3> HIDE DEF t
    <3> QED
      BY <1>1, <1>4, <3>2, <3>3, ChunkIsSound
  <2>2. ChunkSize(p, c) =
          CASE c = "CR" -> To(p, "chunk_size_almost_done")
            [] c \in {";", " "} -> To(p, "chunk_parameters")
            [] c \in DOMAIN Hex -> IF (MaxLength - 16) \div 16 < p.length THEN Fails(p, "length") ELSE t
            [] OTHER -> Fails(p, "chunk_size")
    BY DEF ChunkSize
  <2>3. Between(Fails(p, "length")) /\ Between(Fails(p, "chunk_size"))
    BY <1>1, <1>4, FailsIsSound
  <2> HIDE DEF t
  <2> QED
    BY <1>3, <1>4, <2>1, <2>2, <2>3
<1> QED
  BY <1>2, <1>3, <1>4

(* The line end behind the size of a chunk: data, or the trailer. *)
LEMMA ChunkSizeEnds ==
    ASSUME NEW p, Sound(p), p.errno = "ok", p.state = "chunk_size_almost_done", NEW c
    PROVE  Between(ChunkSizeAlmostDone(p, c))
<1>1. Held(p) /\ p.mark = "none" /\ "chunked" \in p.flags /\ p.nread \in Nat
      /\ p.length \in 0 .. MaxLength - 1
  BY HttpAssumption DEF Sound, Relied, MarkIn, ChunkStates
<1> DEFINE s == IF p.length = 0 THEN "field_start" ELSE "chunk_data"
           r == To(p, s)
           flags == IF p.length = 0 THEN r.flags \cup {"trailing"} ELSE r.flags
           t == [r EXCEPT !.nread = 0, !.flags = flags, !.resp.chunked = TRUE]
<1>2. Held(r) /\ r.state = s /\ r.mark = "none" /\ r.errno = "ok" /\ r.flags = p.flags
      /\ r.length = p.length
  BY <1>1, ToDoes
<1>3. Between(Fails(p, "strict"))
  BY <1>1, FailsIsSound
<1> HIDE DEF r
<1>4. Held(t) /\ t.state = s /\ t.mark = "none" /\ t.nread = 0 /\ t.flags = flags
      /\ t.length = p.length
  <2> HIDE DEF s, flags
  <2> QED
    BY <1>2 DEF Held, ParserFields
<1>5. ChunkSizeAlmostDone(p, c) \in {Fails(p, "strict"), t}
  <2>1. ChunkSizeAlmostDone(p, c) = CASE c # "LF" -> Fails(p, "strict") [] OTHER -> t
    BY <1>2 DEF ChunkSizeAlmostDone, t, r, s, flags
  <2> HIDE DEF t
  <2> QED
    BY <2>1
<1> HIDE DEF t
<1>6. CASE p.length = 0
  <2>1. t.state = "field_start" /\ t.length \in 0 .. MaxLength
    BY <1>1, <1>4, <1>6, HttpAssumption
  <2>2. "field_start" \in PlainStates
    BY DEF PlainStates, HeaderStates
  <2>3. t.state \in PlainStates
    BY <2>1, <2>2
  <2>4. Between(t)
    BY <1>4, <2>1, <2>3, PlainIsSound
  <2> QED
    BY <1>3, <1>5, <2>4
<1>7. CASE p.length # 0
  <2>1. t.state = "chunk_data" /\ "chunked" \in t.flags /\ t.length \in 1 .. MaxLength - 1
    BY <1>1, <1>2, <1>4, <1>7
  <2>2. Between(t)
    BY <1>4, <2>1, ChunkIsSound
  <2> QED
    BY <1>3, <1>5, <2>2
<1> QED
  BY <1>6, <1>7

(* The line end behind the data of a chunk. *)
LEMMA ChunkEnds ==
    ASSUME NEW p, Sound(p), p.errno = "ok", NEW c
    PROVE  /\ p.state = "chunk_data_almost_done" => Between(ChunkDataAlmostDone(p, c))
           /\ p.state = "chunk_data_done" => Between(ChunkDataDone(p, c))
<1>1. ASSUME p.state \in {"chunk_data_almost_done", "chunk_data_done"}
      PROVE  /\ Held(p) /\ "chunked" \in p.flags /\ p.nread \in Nat /\ p.length \in 0 .. MaxLength
             /\ p.state = "chunk_data_almost_done" => p.length = 0
             /\ p.state = "chunk_data_done" => p.mark = "none"
  BY <1>1 DEF Sound, Relied, MarkIn, ChunkStates
<1>2. ASSUME p.state = "chunk_data_almost_done" PROVE Between(ChunkDataAlmostDone(p, c))
  <2> DEFINE held == p.length = 0
             r == Asserting(p, held)
             u == To(r, "chunk_data_done")
             t == Deliver(u)
  <2>1. held = TRUE
    BY <1>1, <1>2
  <2> HIDE DEF held
  <2>2. Held(r) /\ r.errno = "ok" /\ r.flags = p.flags /\ r.nread = p.nread /\ r.length = p.length
    BY <1>1, <1>2, <2>1, HoldsKeeps
  <2> HIDE DEF r
  <2>3. Held(u) /\ u.errno = "ok" /\ u.flags = p.flags /\ u.nread = p.nread /\ u.length = p.length
        /\ u.state = "chunk_data_done"
    BY <2>2, ToDoes
  <2> HIDE DEF u
  <2>4. Held(t) /\ t.mark = "none" /\ t.flags = p.flags /\ t.nread = p.nread /\ t.length = p.length
        /\ t.state = "chunk_data_done"
    BY <2>3, DeliverDoes
  <2>5. ChunkDataAlmostDone(p, c) \in {t, Fails(p, "strict")}
    BY DEF ChunkDataAlmostDone, t, u, r, held
  <2> HIDE DEF t
  <2>6. Between(t)
    BY <1>1, <1>2, <2>4, ChunkIsSound
  <2>7. Between(Fails(p, "strict"))
    BY <1>1, <1>2, FailsIsSound
  <2> QED
    BY <2>5, <2>6, <2>7
<1>3. ASSUME p.state = "chunk_data_done" PROVE Between(ChunkDataDone(p, c))
  <2> DEFINE u == To(p, "chunk_size_start")
             t == [u EXCEPT !.nread = 0]
  <2>1. Held(u) /\ u.mark = "none" /\ u.flags = p.flags /\ u.length = p.length
        /\ u.state = "chunk_size_start"
    BY <1>1, <1>3, ToDoes
  <2> HIDE DEF u
  <2>2. Held(t) /\ t.mark = "none" /\ t.flags = p.flags /\ t.length = p.length
        /\ t.state = "chunk_size_start" /\ t.nread = 0
    BY <2>1 DEF Held, ParserFields
  <2>3. ChunkDataDone(p, c) \in {t, Fails(p, "strict")}
    BY DEF ChunkDataDone, t, u
  <2> HIDE DEF t
  <2>4. Between(t)
    BY <1>1, <1>3, <2>2, ChunkIsSound
  <2>5. Between(Fails(p, "strict"))
    BY <1>1, <1>3, FailsIsSound
  <2> QED
    BY <2>3, <2>4, <2>5
<1> QED
  BY <1>2, <1>3

(* Any character of a body. *)
LEMMA BodyHandlerDoes ==
    ASSUME NEW p, Sound(p), p.errno = "ok", p.state \in BodyStates, NEW c,
           p.state = "chunk_size_start" => p.nread = 1
    PROVE  Between(Body(p, c))
<1>1. CASE p.state = "body_identity_eof"
  <2> DEFINE t == Take(Mark(p, "body"), c)
  <2>1. Held(p) /\ p.mark \in {"none", "body"} /\ p.length \in 0 .. MaxLength /\ p.nread \in Nat
    BY <1>1 DEF Sound, Relied, MarkIn
  <2>2. Held(t) /\ t.mark = "body" /\ t.errno = "ok" /\ t.state = "body_identity_eof"
        /\ t.length = p.length /\ t.nread = p.nread
    BY <1>1, <2>1, MarkDoes
  <2>3. Body(p, c) = t
    BY <1>1 DEF Body
  <2> HIDE DEF t
  <2>4. Between(t)
    BY <2>1, <2>2 DEF Between, Sound, Relied, BodyStates, ChunkStates, MarkIn
  <2> QED
    BY <2>3, <2>4
<1>2. CASE p.state \in {"body_identity", "chunk_data"}
  BY <1>2, BodyIdentityDoes, ChunkDataDoes DEF Body
<1>3. CASE p.state \in {"chunk_size_start", "chunk_size", "chunk_parameters"}
  BY <1>3, ChunkSizeDoes DEF Body
<1>4. CASE p.state \in {"chunk_size_almost_done", "chunk_data_almost_done", "chunk_data_done"}
  BY <1>4, ChunkSizeEnds, ChunkEnds DEF Body
<1> QED
  BY <1>1, <1>2, <1>3, <1>4 DEF BodyStates, ChunkStates

(* One character, before it is counted: the parser is as a buffer leaves it. *)
LEMMA SwitchDoes ==
    ASSUME NEW p, Sound(p), p.errno = "ok", NEW c, p.state = "chunk_size_start" => p.nread = 1
    PROVE  Between(Switch(p, c))
<1>1. p.state \in StatusStates \cup HeaderStates \cup BodyStates \cup {"dead"}
  BY DEF Sound, Relied
<1>2. CASE p.state = "dead"
  <2>1. p.state \in PlainStates
    BY <1>2 DEF PlainStates
  <2>2. Between(p)
    BY <1>2 DEF Between
  <2>3. Between(Fails(p, "closed"))
    BY FailsIsSound DEF Sound
  <2> DEFINE f == Fails(p, "closed")
  <2>4. p.state \notin StatusStates /\ p.state \notin HeaderStates
    BY <1>2 DEF StatusStates, HeaderStates
  <2>5. Switch(p, c) = IF c \in {"CR", "LF"} THEN p ELSE f
    BY <1>2, <2>4 DEF Switch
  <2> HIDE DEF f
  <2> QED
    BY <2>2, <2>3, <2>5 DEF f
<1>3. CASE p.state \in StatusStates
  <2>1. p.state # "dead" /\ p.state \notin HeaderStates
    BY <1>3 DEF StatusStates, HeaderStates
  <2>2. Switch(p, c) = StatusLine(p, c)
    BY <1>3, <2>1 DEF Switch
  <2> QED
    BY <1>3, <2>2, StatusLineDoes
<1>4. CASE p.state \in HeaderStates
  <2>1. p.state # "dead" /\ p.state \notin StatusStates
    BY <1>4 DEF StatusStates, HeaderStates
  <2>2. Switch(p, c) = Header(p, c)
    BY <1>4, <2>1 DEF Switch
  <2> QED
    BY <1>4, <2>2, HeaderDoes
<1>5. CASE p.state \in BodyStates
  <2>1. p.state # "dead" /\ p.state \notin StatusStates /\ p.state \notin HeaderStates
    BY <1>5 DEF StatusStates, HeaderStates, BodyStates, ChunkStates
  <2> DEFINE held == p.state \in ChunkStates => "chunked" \in p.flags
             r == Asserting(p, held)
  <2>2. Held(p) /\ held
    BY DEF Sound, Relied
  <2>3. Sound(r) /\ r.errno = "ok" /\ r.state = p.state /\ r.nread = p.nread
    BY <2>2, HoldsKeeps
  <2>4. Switch(p, c) = Body(r, c)
    BY <2>1 DEF Switch
  <2> HIDE DEF r
  <2> QED
    BY <1>5, <2>3, <2>4, BodyHandlerDoes
<1> QED
  BY <1>1, <1>2, <1>3, <1>4, <1>5

(* Counting a character of the headers changes nothing but the count, or is an error. *)
LEMMA CountHeaderDoes ==
    ASSUME NEW p, Sound(p), p.errno = "ok"
    PROVE  LET t == CountHeader(p, 1)
           IN Sound(t) /\ (t.errno = "ok" => t.nread = p.nread + 1 /\ t.state = p.state /\ t.mark = p.mark)
<1> DEFINE n == p.nread + 1
           t == [p EXCEPT !.nread = @ + 1]
<1>1. Held(p) /\ Relied(p) /\ n \in Nat
  BY DEF Sound, Relied
<1>2. t = [p EXCEPT !.nread = n]
  OBVIOUS
<1>3. Held(t) /\ t.nread = n /\ t.state = p.state /\ t.hs = p.hs /\ t.flags = p.flags /\ t.mark = p.mark
      /\ t.length = p.length /\ t.errno = "ok"
  BY <1>1 DEF Held, ParserFields
<1>4. Sound(Fails(p, "overflow")) /\ Fails(p, "overflow").errno # "ok"
  BY <1>1, FailsIsSound DEF Between, Fails, Held, ParserFields
<1>5. CountHeader(p, 1) \in {t, Fails(p, "overflow")}
  BY DEF CountHeader
<1> HIDE DEF t
<1>6. Sound(t)
  <2> HIDE DEF n
  <2> QED
    BY <1>1, <1>3 DEF Sound, Relied
<1> QED
  BY <1>3, <1>4, <1>5, <1>6

(* Any character keeps what the parser relies on. *)
LEMMA FeedDoes ==
    ASSUME NEW p, Between(p), NEW c
    PROVE  Between(Feed(p, c))
<1>1. CASE p.errno # "ok" \/ p.stop
  <2> DEFINE e == IF p.errno = "ok" THEN "stopped" ELSE p.errno
  <2>1. Feed(p, c) = [p EXCEPT !.errno = e]
    BY <1>1 DEF Feed
  <2>2. Held(p) /\ e # "ok"
    BY DEF Between, Sound
  <2> HIDE DEF e
  <2>3. Between(Fails(p, e))
    BY <2>2, FailsIsSound
  <2> QED
    BY <2>1, <2>3 DEF Fails
<1>2. CASE ~(p.errno # "ok" \/ p.stop)
  <2> DEFINE t == IF ParsingHeader(p) THEN CountHeader(p, 1) ELSE p
  <2>1. Feed(p, c) = IF t.errno # "ok" THEN t ELSE Switch(t, c)
    BY <1>2 DEF Feed
  <2>2. Sound(p) /\ p.errno = "ok" /\ (p.state = "chunk_size_start" => p.nread = 0 /\ ParsingHeader(p))
    BY <1>2 DEF Between, ParsingHeader
  <2>3. Sound(t) /\ (t.errno = "ok" /\ t.state = "chunk_size_start" => t.nread = 1)
    <3>1. CASE ParsingHeader(p)
      BY <2>2, <3>1, CountHeaderDoes
    <3>2. CASE ~ParsingHeader(p)
      BY <2>2, <3>2
    <3> QED
      BY <3>1, <3>2
  <2> HIDE DEF t
  <2>4. t.errno # "ok" => Between(t)
    BY <2>3 DEF Between
  <2> QED
    BY <2>1, <2>3, <2>4, SwitchDoes
<1> QED
  BY <1>1, <1>2

(* Between two buffers no mark is set. *)
Rests(p) == Between(p) /\ (p.errno = "ok" => p.mark = "none")

(* The start of a buffer marks what the state is inside of. *)
LEMMA BufferStartDoes ==
    ASSUME NEW p, Rests(p), p.errno = "ok"
    PROVE  Between(BufferStart(p))
<1> DEFINE kind == CASE p.state = "field" -> "field" [] p.state = "value" -> "value"
                     [] p.state = "res_status" -> "status" [] OTHER -> "none"
           u == Mark(p, kind)
           t == [u EXCEPT !.run = "none"]
<1>1. Sound(p) /\ Held(p) /\ p.mark = "none" /\ (p.state = "chunk_size_start" => p.nread = 0)
  BY DEF Rests, Between, Sound
<1>2. kind \in {"none", MarkIn(p.state)}
  BY DEF MarkIn
<1>3. BufferStart(p) = t
  BY DEF BufferStart
<1> HIDE DEF kind
<1>4. Held(u) /\ u.mark = kind /\ u.errno = "ok" /\ u.state = p.state /\ u.hs = p.hs /\ u.flags = p.flags
      /\ u.length = p.length /\ u.nread = p.nread
  BY <1>1, MarkDoes
<1> HIDE DEF u
<1>5. Held(t) /\ t.mark = kind /\ t.errno = "ok" /\ t.state = p.state /\ t.hs = p.hs /\ t.flags = p.flags
      /\ t.length = p.length /\ t.nread = p.nread
  BY <1>4 DEF Held, ParserFields
<1> HIDE DEF t
<1>6. Between(t)
  BY <1>1, <1>2, <1>5 DEF Between, Sound, Relied
<1> QED
  BY <1>3, <1>6

(* The end of a buffer hands over what is marked, and the parser is at rest. *)
LEMMA BufferEndDoes ==
    ASSUME NEW p, Between(p)
    PROVE  Rests(BufferEnd(p))
<1>1. \A t : Between(t) /\ t.errno = "ok" => Rests(Deliver(t))
  <2> TAKE t
  <2> HAVE Between(t) /\ t.errno = "ok"
  <2> DEFINE u == Deliver(t)
  <2>1. Held(t)
    BY DEF Between, Sound
  <2>2. /\ Held(u) /\ u.mark = "none" /\ u.errno = "ok" /\ u.state = t.state /\ u.hs = t.hs
        /\ u.flags = t.flags /\ u.length = t.length /\ u.nread = t.nread
    BY <2>1, DeliverDoes
  <2> HIDE DEF u
  <2>3. Rests(u)
    BY <2>2 DEF Rests, Between, Sound, Relied
  <2> QED
    BY <2>3 DEF u
<1>2. CASE p.errno # "ok"
  BY <1>2 DEF BufferEnd, Rests
<1>3. CASE p.errno = "ok" /\ p.state \in {"field", "value"} /\ p.run # "none"
  <2> DEFINE t == CountHeader(p, 1)
  <2>1. BufferEnd(p) = IF t.errno # "ok" THEN t ELSE Deliver(t)
    BY <1>3 DEF BufferEnd
  <2>2. Sound(t) /\ (t.errno = "ok" => t.state = p.state)
    BY <1>3, CountHeaderDoes DEF Between
  <2> HIDE DEF t
  <2>3. Between(t)
    BY <1>3, <2>2 DEF Between
  <2> QED
    BY <1>1, <2>1, <2>3 DEF Rests
<1>4. CASE p.errno = "ok" /\ ~(p.state \in {"field", "value"} /\ p.run # "none")
  <2>1. BufferEnd(p) = Deliver(p)
    BY <1>4 DEF BufferEnd
  <2> QED
    BY <1>1, <1>4, <2>1
<1> QED
  BY <1>2, <1>3, <1>4

(* Every non-empty set of natural numbers has a least one. *)
LEMMA Least ==
    ASSUME NEW T, T \subseteq Nat, T # {}
    PROVE  \E x \in T : \A y \in T : x <= y
<1>1. IsWellFoundedOn(OpToRel(<, Nat), Nat)
  BY NatLessThanWellFounded
<1>2. PICK x \in T : \A y \in T : ~(<<y, x>> \in OpToRel(<, Nat))
  BY <1>1, WFMin
<1>3. \A y \in T : ~(y < x)
  BY <1>2 DEF OpToRel
<1>4. \A y \in T : x <= y
  BY <1>3
<1> QED
  BY <1>4

(* Induction up to a bound. *)
LEMMA UpTo ==
    ASSUME NEW n \in Nat, NEW S, 0 \in S, \A i \in 1 .. n : i - 1 \in S => i \in S
    PROVE  \A i \in 0 .. n : i \in S
<1> DEFINE T == {i \in 0 .. n : i \notin S}
<1>1. SUFFICES ASSUME T # {} PROVE FALSE
  OBVIOUS
<1>2. T \subseteq Nat
  OBVIOUS
<1>3. PICK x \in T : \A y \in T : x <= y
  BY <1>1, <1>2, Least
<1>4. x \in 1 .. n /\ x \notin S
  BY <1>3
<1>5. x - 1 \in 0 .. n /\ ~(x <= x - 1)
  BY <1>4
<1>6. x - 1 \in S
  BY <1>3, <1>5
<1> QED
  BY <1>4, <1>6

(* A whole buffer, character by character. *)
LEMMA ExecuteDoes ==
    ASSUME NEW p, Rests(p), p.errno = "ok", NEW buffer, Len(buffer) \in Nat
    PROVE  Rests(Execute(p, buffer))
<1> DEFINE n == Len(buffer)
           r == BufferStart(p)
           Step(v, i) == Feed(v, buffer[i])
           Good(g, k) == g = [i \in 0 .. k |-> IF i = 0 THEN r ELSE Step(g[i - 1], i)]
           S == {k \in 0 .. n : \E g : Good(g, k)}
<1>1. 0 \in S
  <2> DEFINE g0 == [i \in 0 .. 0 |-> r]
  <2>1. Good(g0, 0)
    OBVIOUS
  <2> HIDE DEF Good
  <2>2. \E g : Good(g, 0)
    BY <2>1
  <2> QED
    BY <2>2
<1>2. ASSUME NEW k \in 1 .. n, k - 1 \in S
      PROVE  k \in S
  <2>1. PICK g : Good(g, k - 1)
    BY <1>2
  <2> HIDE DEF Step
  <2> DEFINE g2 == [i \in 0 .. k |-> IF i = k THEN Step(g[k - 1], k) ELSE g[i]]
  <2>2. \A i \in 0 .. k - 1 : g[i] = IF i = 0 THEN r ELSE Step(g[i - 1], i)
    BY <2>1
  <2>3. \A i \in 0 .. k : g2[i] = IF i = 0 THEN r ELSE Step(g2[i - 1], i)
    <3> TAKE i \in 0 .. k
    <3>1. CASE i = k
      BY <3>1
    <3>2. CASE i # k
      <4>1. i \in 0 .. k - 1 /\ g2[i] = g[i]
        BY <3>2
      <4>2. CASE i = 0
        BY <4>1, <4>2, <2>2
      <4>3. CASE i # 0
        <5>1. g2[i - 1] = g[i - 1]
          BY <4>1, <4>3
        <5> QED
          BY <4>1, <4>3, <5>1, <2>2
      <4> QED
        BY <4>2, <4>3
    <3> QED
      BY <3>1, <3>2
  <2>4. Good(g2, k)
    BY <2>3
  <2> HIDE DEF Good
  <2>5. \E v : Good(v, k)
    BY <2>4
  <2> QED
    BY <2>5
<1>3. n \in S
  <2>1. \A i \in 0 .. n : i \in S
    BY <1>1, <1>2, UpTo
  <2> QED
    BY <2>1
<1>4. PICK f : Good(f, n)
  BY <1>3
<1> DEFINE fed == CHOOSE fed : fed = [i \in 0 .. n |-> IF i = 0 THEN r ELSE Step(fed[i - 1], i)]
<1>5. Good(fed, n)
  BY <1>4
<1>6. Execute(p, buffer) = BufferEnd(fed[n])
  BY DEF Execute, Fed, Rejected
<1> HIDE DEF Step, fed
<1>7. fed[0] = r /\ \A i \in 1 .. n : fed[i] = Step(fed[i - 1], i)
  BY <1>5
<1> DEFINE T == {i \in 0 .. n : Between(fed[i])}
<1>8. 0 \in T
  BY <1>7, BufferStartDoes
<1>9. \A i \in 1 .. n : i - 1 \in T => i \in T
  <2> TAKE i \in 1 .. n
  <2> HAVE i - 1 \in T
  <2>1. Between(Step(fed[i - 1], i))
    BY FeedDoes DEF Step
  <2> QED
    BY <1>7, <2>1
<1>10. n \in T
  <2>1. \A i \in 0 .. n : i \in T
    BY <1>8, <1>9, UpTo
  <2> QED
    BY <2>1
<1> QED
  BY <1>6, <1>10, BufferEndDoes

(* The end of the stream. *)
LEMMA FinishDoes ==
    ASSUME NEW p, Rests(p)
    PROVE  Held(Finish(p))
<1>1. Held(p)
  BY DEF Rests, Between, Sound
<1>2. Held([p EXCEPT !.resp.complete = TRUE])
  BY <1>1 DEF Held, ParserFields
<1>3. Held(Fails(p, "eof_state"))
  BY <1>1, FailsIsSound DEF Between, Sound
<1>4. Finish(p) \in {p, [p EXCEPT !.resp.complete = TRUE], Fails(p, "eof_state")}
  BY DEF Finish
<1> QED
  BY <1>1, <1>2, <1>3, <1>4

(* A parser starts at rest. *)
LEMMA InitRests == Rests(ParserInit) /\ ParserInit.errno = "ok"
<1>1. Held(ParserInit) /\ ParserInit.errno = "ok" /\ ParserInit.mark = "none" /\ ParserInit.nread = 0
      /\ ParserInit.length = 0 /\ ParserInit.state = "start_res"
  BY DEF ParserInit, Held, ParserFields
<1>2. "start_res" \in PlainStates /\ 0 \in 0 .. MaxLength
  BY HttpAssumption DEF PlainStates, StatusStates
<1>3. Between(ParserInit)
  BY <1>1, <1>2, PlainIsSound
<1> QED
  BY <1>1, <1>3 DEF Rests

(* The parser of a call that receives is at rest; what is still to come is a *)
(* sequence of characters.                                                   *)
HttpInv ==
    /\ "phase" \in DOMAIN req
    /\ Held(q)
    /\ req.phase = "receiving" => Rests(q)
    /\ rest \in Seq(STRING) /\ MessageText(msg) \in Seq(STRING)

(* A request starts without an answer. *)
LEMMA HttpStarts == HttpInit => HttpInv
BY InitRests, ExchangeAssumption DEF HttpInit, HttpInv, Rests, Between, Sound

(* A buffer taken from what is still to come, and what it leaves. *)
LEMMA ReceiveKeeps == ASSUME HttpInv, NEW n \in Nat, Receive(n) PROVE HttpInv'
<1> DEFINE buffer == SubSeq(rest, 1, n)
<1>1. "phase" \in DOMAIN req /\ req.phase = "receiving" /\ Rests(q)
      /\ rest \in Seq(STRING) /\ n <= Len(rest) /\ MessageText(msg) \in Seq(STRING)
  BY DEF HttpInv, Receive
<1>2. Len(buffer) \in Nat /\ rest' \in Seq(STRING)
  BY <1>1 DEF Receive
<1>3. Rests(Execute(q, buffer)) /\ q' = Execute(q, buffer)
  <2>1. q' = Execute(q, buffer)
    BY DEF Receive
  <2>2. CASE q.errno = "ok"
    BY <1>1, <1>2, <2>1, <2>2, ExecuteDoes
  <2>3. CASE q.errno # "ok"
    BY <1>1, <2>1, <2>3 DEF Execute, Rejected
  <2> QED
    BY <2>2, <2>3
<1>4. Rests(q') /\ Held(q')
  BY <1>3 DEF Rests, Between, Sound
<1>5. "phase" \in DOMAIN req'
  BY <1>1 DEF Receive, Return
<1> QED
  BY <1>1, <1>2, <1>4, <1>5 DEF HttpInv, Receive

(* The next part of the request, or the answer. *)
LEMMA ProceedKeeps ==
    ASSUME HttpInv, req.phase = "sending", NEW todo, NEW whole, Proceed(todo, whole), UNCHANGED msg
    PROVE  HttpInv'
<1>1. "phase" \in DOMAIN req /\ Held(q) /\ rest \in Seq(STRING) /\ MessageText(msg) \in Seq(STRING)
  BY DEF HttpInv
<1>2. MessageText(msg)' = MessageText(msg)
  BY DEF MessageText, HeadText, BodyText, Framing, FieldText
<1>3. CASE todo # <<>>
  BY <1>1, <1>2, <1>3 DEF HttpInv, Proceed
<1>4. CASE todo = <<>>
  <2>1. q' = ParserInit /\ rest' = (IF whole THEN MessageText(msg) ELSE <<>>)
    BY <1>4 DEF Proceed
  <2>2. "phase" \in DOMAIN req'
    BY <1>1, <1>4 DEF Proceed
  <2>3. rest' \in Seq(STRING)
    <3>1. <<>> \in Seq(STRING)
      OBVIOUS
    <3>2. CASE whole
      BY <1>1, <2>1, <3>2
    <3>3. CASE ~whole
      BY <2>1, <3>1, <3>3
    <3> QED
      BY <3>2, <3>3
  <2>4. Rests(q') /\ Held(q') /\ q'.errno = "ok"
    BY <2>1, InitRests DEF Rests, Between, Sound
  <2> QED
    BY <1>1, <1>2, <2>2, <2>3, <2>4 DEF HttpInv
<1> QED
  BY <1>3, <1>4

(* Every step keeps the invariant. *)
LEMMA HttpSteps == HttpInv /\ [HttpNext]_HttpVars => HttpInv'
<1> SUFFICES ASSUME HttpInv, [HttpNext]_HttpVars PROVE HttpInv'
  OBVIOUS
<1>1. "phase" \in DOMAIN req /\ Held(q) /\ rest \in Seq(STRING) /\ MessageText(msg) \in Seq(STRING)
  BY DEF HttpInv
<1>2. ASSUME UNCHANGED <<q, msg, rest>>, "phase" \in DOMAIN req', req'.phase # "receiving"
      PROVE  HttpInv'
  BY <1>1, <1>2 DEF HttpInv
<1>3. CASE Construct
  <2>1. "phase" \in DOMAIN req' /\ req'.phase = "ready" /\ UNCHANGED <<q, msg, rest>>
    BY <1>1, <1>3 DEF Construct
  <2> QED
    BY <1>2, <2>1
<1>4. CASE SendAgain \/ SocketFails \/ SendError \/ ReceiveError
  <2>1. PICK error : req' = Return("NULL", error)
    BY <1>4 DEF SendAgain, SocketFails, SendError, ReceiveError
  <2>2. "phase" \in DOMAIN req' /\ req'.phase = "ready"
    BY <1>1, <2>1 DEF Return
  <2>3. UNCHANGED <<q, msg, rest>>
    BY <1>4 DEF SendAgain, SocketFails, SendError, ReceiveError
  <2> QED
    BY <1>2, <2>2, <2>3
<1>5. CASE Connect
  <2>1. "phase" \in DOMAIN req' /\ req'.phase = "sending" /\ UNCHANGED <<q, msg, rest>>
    BY <1>1, <1>5 DEF Connect
  <2> QED
    BY <1>2, <2>1
<1>6. CASE SendSome
  BY <1>6, ProceedKeeps DEF SendSome
<1>7. CASE SendNothing
  BY <1>7, ProceedKeeps DEF SendNothing
<1>8. CASE ReceivePiece
  <2>1. PICK n \in 1 .. MaxPiece : Receive(n)
    BY <1>8 DEF ReceivePiece
  <2> QED
    BY <2>1, ReceiveKeeps
<1>9. CASE ReceiveRest
  <2>1. Len(rest) \in Nat
    BY <1>1
  <2> QED
    BY <1>9, <2>1, ReceiveKeeps DEF ReceiveRest
<1>10. CASE ReceiveEnd
  <2>1. Held(q') /\ "phase" \in DOMAIN req' /\ req'.phase = "ready" /\ UNCHANGED <<msg, rest>>
    BY <1>1, <1>10, FinishDoes DEF ReceiveEnd, Return, HttpInv
  <2> QED
    BY <1>1, <2>1 DEF HttpInv
<1>11. CASE UNCHANGED HttpVars
  BY <1>11 DEF HttpInv, HttpVars
<1> QED
  BY <1>3, <1>4, <1>5, <1>6, <1>7, <1>8, <1>9, <1>10, <1>11 DEF HttpNext, SendCall, ReceiveCall

(* The assertions in http_parser_execute hold at each character of any       *)
(* answer, well-formed or not, into whatever buffers it is cut, and none of  *)
(* the callbacks is called after an error.                                   *)
THEOREM AssertionsAlwaysHold == HttpSpec => []AssertionsHold
<1>1. HttpInv => AssertionsHold
  BY DEF HttpInv, Held, AssertionsHold
<1> QED
  BY <1>1, HttpStarts, HttpSteps, PTL DEF HttpSpec
=============================================================================
