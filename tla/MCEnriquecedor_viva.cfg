SPECIFICATION SpecViva
CONSTANTS
    a = a
    b = b
    c = c
    k1 = k1
    k2 = k2
    IP = {a, b, c}
    Privadas = {c}
    Sucesos <- MCSsh
    Origenes <- MCMalo
    Ajustes <- MCSiempre
    Clave = {k1}
    SinClave = SinClave
    Umbrales = {75}
    Cupo = 5
    Reserva = 1
    Caducidad = 1
    PorTanda = 1
    MaxReloj = 1
    MaxEventos = 3
    MaxFallos = 1
    MaxAjustes = 0
    MaxPurgas = 0
    MaxCaidas = 1
PROPERTIES TodaIPSeConoce
CHECK_DEADLOCK FALSE
