-------------------------------- MODULE Spi ---------------------------------
(***************************************************************************)
(* class SPIClassPSOC (libraries/SPI/src/SPI.cpp): the flag, the settings  *)
(* and the block.  transfer() changes none of them and does not look at    *)
(* the flag.                                                               *)
(***************************************************************************)
EXTENDS PinManager

CONSTANTS SpiPins,          \* those of the constructor
          Settings,         \* values of SPISettings
          DefaultSettings

ASSUME SpiAssumption ==
  SpiPins \subseteq Pins /\ DefaultSettings \in Settings /\ "free" \notin Settings

VARIABLES _is_initialized, _settings,
          block   \* "free", or the settings it was initialised with

spi == <<_is_initialized, _settings, block>>

SpiInit == _is_initialized = FALSE /\ _settings = DefaultSettings /\ block = "free"

\* begin() with the settings s, on pins as the map o says: cyhal_spi_init
\* fails, always if a pin is held; or it does not and the frequency can be
\* set or not.  A block left behind in the last way holds its pins.
Begun(s, o, b) ==
  \/ _is_initialized' = FALSE /\ owner' = o /\ block' = b
  \/ /\ \A p \in SpiPins : o[p] = "none"
     /\ owner' = [p \in Pins |-> IF p \in SpiPins THEN "spi" ELSE o[p]]
     /\ block' = s
     /\ _is_initialized' \in BOOLEAN

begin ==
  /\ _is_initialized = FALSE
  /\ Begun(_settings, owner, block)
  /\ UNCHANGED _settings

\* Mutant of end: the flag is not looked at.
endAlways ==
  /\ owner' = Given(SpiPins, "none") /\ block' = "free"
  /\ _is_initialized' = FALSE
  /\ UNCHANGED _settings

end ==
  /\ _is_initialized = TRUE
  /\ owner' = Given(SpiPins, "none") /\ block' = "free"
  /\ _is_initialized' = FALSE
  /\ UNCHANGED _settings

\* Mutant of beginTransaction: an initialised object only takes the settings over.
beginTransactionLazy(s) ==
  /\ _settings' = s
  /\ \/ _is_initialized = FALSE /\ Begun(s, owner, block)
     \/ _is_initialized = TRUE /\ UNCHANGED <<owner, _is_initialized, block>>

beginTransaction(s) ==
  /\ _settings' = s
  /\ \/ _is_initialized = FALSE /\ Begun(s, owner, block)
     \/ _is_initialized = TRUE /\ _settings = s /\ UNCHANGED <<owner, _is_initialized, block>>
     \/ /\ _is_initialized = TRUE /\ _settings # s
        /\ Begun(s, Given(SpiPins, "none"), "free")

SpiNext == begin \/ end \/ \E s \in Settings : beginTransaction(s)

SpiType ==
  /\ _is_initialized \in BOOLEAN /\ _settings \in Settings
  /\ block \in Settings \cup {"free"}

(* An initialised object runs with the settings of the last                *)
(* beginTransaction(), through every failure in a re-initialisation.       *)
(* SPI.cpp:16-40, 137-147.                                                 *)
SettingsApplied == _is_initialized = TRUE => block = _settings
=============================================================================
