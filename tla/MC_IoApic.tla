------------------------------ MODULE MC_IoApic ------------------------------
(***************************************************************************)
(* Two I/O APICs: ioapics[0] with GSIs 0-1 and ioapics[1] with GSIs 2-3.   *)
(* acpi_irq_to_gsi sends IRQ 0 to GSI 2 (the usual timer override), keeps  *)
(* IRQs 1 and 3, and IRQ 4 lands on GSI 24, which no I/O APIC serves.      *)
(* IRQs 0 and 3 share ioapics[1]; IRQ 1 is alone on ioapics[0].            *)
(***************************************************************************)
EXTENDS IoApic

MCGsiBase  == (0 :> 0 @@ 1 :> 2)
MCMaxRedir == (0 :> 1 @@ 1 :> 1)
MCIrqToGsi == (0 :> 2 @@ 1 :> 1 @@ 3 :> 3 @@ 4 :> 24)
MCApicIdOf == (1 :> 1 @@ 2 :> 2)

=============================================================================
