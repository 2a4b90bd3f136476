------------------------------- MODULE Screen -------------------------------
(***************************************************************************)
(* The screen: graphics.c, window.c and mouse.c. Processes draw pixel by   *)
(* pixel, clipped to their windows. The mouse interrupt moves the pointer, *)
(* which lies over the picture: mouse_draw_buffer keeps what is under it,  *)
(* plot_pixel writes there too when it draws near it.                      *)
(*                                                                         *)
(* The interrupt comes between two pixels, and in the middle of one if     *)
(* MidPixel. No caller gives a window a parent: window_init_draw's loop    *)
(* over parents is not modelled.                                           *)
(***************************************************************************)
EXTENDS Integers, FiniteSets

CONSTANTS Process,
          XRes, YRes,
          MOUSE_SIDE_2,     \* half the side of the saved square
          POINTER_SIDE_2,   \* the value it has in mouse.h, for PointerSaved
          FONT_WIDTH, FONT_HEIGHT,
          Glyph,            \* the pixels of a character that the font sets
          Frame,            \* the windows created: x, y, width and height
          Stroke,           \* the lines drawn: x1, y1, x2, y2
          Arc,              \* the pixels of the arcs and circles drawn
          Spot,             \* where characters are drawn
          Move,             \* what a byte of the mouse says
          MidPixel

ASSUME ScreenAssumption ==
    /\ XRes \in Nat \ {0} /\ YRes \in Nat \ {0}
    /\ MOUSE_SIDE_2 \in Nat \ {0} /\ POINTER_SIDE_2 \in Nat \ {0}
    /\ Frame \subseteq Int \X Int \X Int \X Int
    /\ Move \subseteq Int

VARIABLES video,        \* the colour of every pixel
          mouse, mouse_draw_buffer, mouse_cycle, mouse_byte,
          current, window,
          pen,          \* the shape being drawn
          picture       \* not in the code: what has been drawn

mice == <<mouse, mouse_draw_buffer, mouse_cycle, mouse_byte>>
screenVars == <<video, mice, current, window, pen, picture>>

Black == "black"
Grey == "grey"
White == "white"
Green == "green"    \* mouse_fg_color

Pixel == (0 .. XRes - 1) \X (0 .. YRes - 1)

Least(a, b) == IF a < b THEN a ELSE b
Most(a, b) == IF a > b THEN a ELSE b
SignOf(n) == IF n < 0 THEN -1 ELSE 1
Abs(n) == IF n < 0 THEN -n ELSE n

\* graphics_line. error is a sum of deltaerr's, here exact: behind n columns y has
\* moved to the nearest whole number of n * deltaerr.
Steps(n, dx, dy) == (2 * n * Abs(dy) + dx) \div (2 * dx)

\* From left to right, whichever end comes first.
LineRight(x1, y1, dx, dy) ==
    UNION {{<<x1 + n, y1 + SignOf(dy) * k>> :
              k \in Steps(n, dx, dy)
                    .. Most(Steps(n, dx, dy), Steps(n + 1, dx, dy) - 1)}
           : n \in 0 .. dx}

Line(x1, y1, x2, y2) ==
    CASE x1 = x2 -> {<<x1, y>> : y \in Least(y1, y2) .. Most(y1, y2)}
      [] x1 < x2 -> LineRight(x1, y1, x2 - x1, y2 - y1)
      [] x1 > x2 -> LineRight(x2, y2, x1 - x2, y1 - y2)

\* graphics_rect
Rect(x, y, w, h) == (x .. x + w - 1) \X (y .. y + h - 1)

\* graphics_draw_pointer_mouse, from the mouse's place: the edge that goes down,
\* and the others.
Edge(s) == Line(0, 0, s \div 3, s - 3)

Pointer(s) ==
    Edge(s)
    \cup Line(0, 0, s - 1, s \div 3)
    \cup Line(s \div 3, s - 1, s \div 2, (2 * s) \div 3)
    \cup Line(s - 1, s \div 3, (2 * s) \div 3, s \div 2)
    \cup Line(s \div 2, (2 * s) \div 3, (2 * s) \div 3, s - 1)
    \cup Line((2 * s) \div 3, s \div 2, s - 1, (2 * s) \div 3)
    \cup Line((2 * s) \div 3, s - 1, s - 1, (2 * s) \div 3)

PointerShape == Pointer(MOUSE_SIDE_2)
PointerDrawn == Pointer(POINTER_SIDE_2)

\* The square that is saved, from the mouse's place.
Area == (1 - MOUSE_SIDE_2 .. MOUSE_SIDE_2 - 1) \X (1 - MOUSE_SIDE_2 .. MOUSE_SIDE_2 - 1)

Plus(p, q) == <<p[1] + q[1], p[2] + q[2]>>
Minus(p, q) == <<p[1] - q[1], p[2] - q[2]>>

\* The pointer drawn at m over the pixels v: plot_pixel_no_check.
WithPointer(v, m) ==
    [p \in Pixel |-> IF Minus(p, m) \in PointerShape THEN Green ELSE v[p]]

\* graphics_copy_to_color_buffer. What lies off the screen keeps its old colour in
\* the code and is never read: black, here.
Saved(v, m) ==
    [a \in Area |-> IF Plus(m, a) \in Pixel THEN v[Plus(m, a)] ELSE Black]

\* graphics_copy_from_color_buffer
Restored(v, m, buffer) ==
    [p \in Pixel |-> IF Minus(p, m) \in Area THEN buffer[Minus(p, m)] ELSE v[p]]

NoWindow == [x |-> 0, y |-> 0, width |-> 0, height |-> 0, bounds |-> Pixel]

\* window_init_draw and window_set_bounds, for a window without a parent: its place
\* is added to its size, so that what it bounds ends twice as far from the corner.
\* Mutant: they begin at the left edge of the screen.
BoundsFromEdge(f) ==
    (0 .. Least(XRes - 1, 2 * f[1] + f[3]))
    \X (Most(0, f[2]) .. Least(YRes - 1, 2 * f[2] + f[4]))

Bounds(f) ==
    LET width == f[3] + f[1]
        height == f[4] + f[2]
    IN (Most(0, f[1]) .. Least(XRes - 1, f[1] + width))
       \X (Most(0, f[2]) .. Least(YRes - 1, f[2] + height))

\* window_set_border_color
Border(f) ==
    Line(f[1], f[2], f[1], f[2] + f[4])
    \cup Line(f[1], f[2], f[1] + f[3], f[2])
    \cup Line(f[1], f[2] + f[4], f[1] + f[3], f[2] + f[4])
    \cup Line(f[1] + f[3], f[2], f[1] + f[3], f[2] + f[4])

NoPen == [todo |-> <<>>, clip |-> {}, at |-> {}, colour |-> Black]

ScreenInit ==
    /\ picture = [p \in Pixel |-> Black]
    /\ video = picture
    /\ mouse = <<XRes \div 2, YRes \div 2>>     \* mouse_init, which does not draw it
    /\ mouse_draw_buffer = [a \in Area |-> Black]
    /\ mouse_cycle = 0 /\ mouse_byte = 0
    /\ window = [p \in Process |-> NoWindow]
    /\ current \in Process
    /\ pen = [p \in Process |-> NoPen]
-----------------------------------------------------------------------------
mine == pen[current]

\* A shape is a function of pixels to colours; those off the screen are not drawn.
\* The order of the pixels is the model's.
Draws(shape, clip) ==
    /\ DOMAIN mine.todo = {} /\ mine.at = {}
    /\ pen' = [pen EXCEPT ![current] =
         [NoPen EXCEPT !.todo = [p \in DOMAIN shape \cap Pixel |-> shape[p]],
                       !.clip = clip]]
    /\ UNCHANGED <<video, mice, current, picture>>

In(pixels, c) == [p \in pixels |-> c]

HasWindow == window[current] # NoWindow

\* sys_window_create: the border is drawn before the process has the window, and
\* is not clipped by it.
CreateWindow(f) ==
    /\ ~HasWindow
    /\ Draws(In(Border(f), Grey), Pixel)
    /\ window' = [window EXCEPT ![current] =
         [x |-> f[1], y |-> f[2], width |-> f[3], height |-> f[4],
          bounds |-> Bounds(f)]]

\* sys_draw_line and sys_clear.
DrawLine(s) ==
    LET w == window[current] IN
    /\ HasWindow
    /\ Draws(In(Line(s[1] + w.x, s[2] + w.y, s[3] + w.x, s[4] + w.y), White), w.bounds)
    /\ UNCHANGED window

Clear ==
    LET w == window[current] IN
    /\ HasWindow
    /\ Draws(In(Rect(w.x + 1, w.y + 1, w.width - 1, w.height - 1), Black), w.bounds)
    /\ UNCHANGED window

\* sys_draw_arc and sys_draw_circle; sys_set_border_color.
DrawArc(arc) ==
    LET w == window[current] IN
    /\ HasWindow
    /\ Draws(In({Plus(p, <<w.x, w.y>>) : p \in arc}, White), w.bounds)
    /\ UNCHANGED window

SetBorderColor ==
    LET w == window[current] IN
    /\ HasWindow
    /\ Draws(In(Border(<<w.x, w.y, w.width, w.height>>), Grey), w.bounds)
    /\ UNCHANGED window

\* sys_draw_char, and sys_draw_string one after the other; and the console, for a
\* process without a window: graphics_bitmap.
DrawChar(at) ==
    LET w == window[current]
        corner == <<at[1] + w.x, at[2] + w.y>>
        box == Rect(corner[1], corner[2], FONT_WIDTH, FONT_HEIGHT)
    IN /\ Draws([p \in box |-> IF Minus(p, corner) \in Glyph THEN White ELSE Black],
                w.bounds)
       /\ UNCHANGED window

\* The pen between two pixels, or put down.
Lifted(p) ==
    IF DOMAIN p.todo = {} THEN NoPen ELSE [p EXCEPT !.at = {}, !.colour = Black]

NextPixel ==
    CHOOSE p \in DOMAIN mine.todo :
        \A q \in DOMAIN mine.todo : p[2] < q[2] \/ (p[2] = q[2] /\ p[1] <= q[1])

\* plot_pixel: the screen,
WritePixel ==
    /\ mine.at = {} /\ DOMAIN mine.todo # {}
    /\ LET p == NextPixel
           c == mine.todo[p]
           rest == [mine EXCEPT !.todo = [q \in DOMAIN mine.todo \ {p} |-> mine.todo[q]]]
       IN IF p \in mine.clip
          THEN /\ video' = [video EXCEPT ![p] = c]
               /\ picture' = [picture EXCEPT ![p] = c]
               /\ pen' = [pen EXCEPT ![current] =
                    [rest EXCEPT !.at = {p}, !.colour = c]]
          ELSE /\ pen' = [pen EXCEPT ![current] = Lifted(rest)]
               /\ UNCHANGED <<video, picture>>
    /\ UNCHANGED <<mice, current, window>>

\* and what is under the pointer.
\* Mutant: the buffer is not written.
NothingUnder ==
    /\ mine.at # {}
    /\ pen' = [pen EXCEPT ![current] = Lifted(@)]
    /\ video' = WithPointer(video, mouse)
    /\ UNCHANGED <<mice, current, window, picture>>

PixelUnder ==
    /\ mine.at # {}
    /\ pen' = [pen EXCEPT ![current] = Lifted(@)]
    /\ \E p \in mine.at :
         IF Minus(p, mouse) \in Area
         THEN /\ mouse_draw_buffer' =
                   [mouse_draw_buffer EXCEPT ![Minus(p, mouse)] = mine.colour]
              /\ video' = WithPointer(video, mouse)
         ELSE UNCHANGED <<mouse_draw_buffer, video>>
    /\ UNCHANGED <<mouse, mouse_cycle, mouse_byte, current, window, picture>>

\* An interrupt is taken: between two pixels, or in the middle of one.
MayInterrupt == mine.at = {} \/ MidPixel

\* The scheduler's.
Switch(p) ==
    /\ MayInterrupt /\ p # current
    /\ current' = p
    /\ UNCHANGED <<video, mice, window, pen, picture>>

\* mouse_interrupt, the first two bytes of a packet. mouse_map heeds nothing in the
\* first: the model keeps only the second.
MouseByte(b) ==
    /\ MayInterrupt
    /\ mouse_cycle < 2
    /\ mouse_byte' = IF mouse_cycle = 1 THEN b ELSE 0
    /\ mouse_cycle' = mouse_cycle + 1
    /\ UNCHANGED <<video, mouse, mouse_draw_buffer, current, window, pen, picture>>

\* mouse_map
Clamped(n, res) == IF n < 0 THEN 0 ELSE IF n > res - 1 THEN res - 1 ELSE n

\* graphics_mouse puts back what was under the pointer and keeps what is under its
\* new place.
Kept(m) == Saved(Restored(video, mouse, mouse_draw_buffer), m)

\* mouse_interrupt, the third byte. The bytes are not read again.
MouseMoves(b) ==
    LET m == <<Clamped(mouse[1] + mouse_byte, XRes), Clamped(mouse[2] - b, YRes)>> IN
    /\ MayInterrupt
    /\ mouse_cycle = 2
    /\ mouse_cycle' = 0
    /\ mouse_byte' = 0
    /\ mouse' = m
    /\ IF m # mouse
       THEN /\ mouse_draw_buffer' = Kept(m)
            /\ video' = WithPointer(Restored(video, mouse, mouse_draw_buffer), m)
       ELSE UNCHANGED <<mouse_draw_buffer, video>>
    /\ UNCHANGED <<current, window, pen, picture>>

ScreenNext ==
    \/ \E f \in Frame : CreateWindow(f)
    \/ \E s \in Stroke : DrawLine(s)
    \/ \E at \in Spot : DrawChar(at)
    \/ \E arc \in Arc : DrawArc(arc)
    \/ Clear \/ SetBorderColor
    \/ WritePixel \/ PixelUnder
    \/ \E p \in Process : Switch(p)
    \/ \E b \in Move : MouseByte(b) \/ MouseMoves(b)

ScreenSpec == ScreenInit /\ [][ScreenNext]_screenVars
-----------------------------------------------------------------------------
\* Pixels whose plot_pixel is not over.
HalfDrawn == UNION {pen[p].at : p \in Process}

\* The pointer's lines, as graphics_line draws them, stay in the square that is
\* saved, at the size they have.
PointerSaved ==
    \A d \in PointerDrawn :
        LET p == Plus(mouse, d) IN
        /\ Abs(p[1] - mouse[1]) < POINTER_SIDE_2
        /\ Abs(p[2] - mouse[2]) < POINTER_SIDE_2

\* The pointer lies over the picture and never changes it: what it covers is in the
\* buffer, and everything else is on the screen, wherever the mouse goes and
\* whoever draws in between, at the edges of the screen too.
PictureKept ==
    /\ PointerSaved
    /\ \A p \in Pixel \ HalfDrawn :
         LET a == Minus(p, mouse) IN
         /\ a \in Area => mouse_draw_buffer[a] = picture[p]
         /\ a \notin PointerShape => video[p] = picture[p]
         /\ a \in PointerShape => video[p] \in {picture[p], Green}

\* What window.h says of every way to draw in a window: it is clipped if it extends
\* outside the window. Not so in the code, unless the window lies in the corner of
\* the screen: Bounds adds the window's place to its size. Creating the window is
\* not drawing in it, and is not clipped.
InsideWindow ==
    [][\A p \in Pixel : picture'[p] # picture[p] /\ mine.clip # Pixel =>
         LET w == window[current] IN
         p \in Rect(w.x, w.y, w.width + 1, w.height + 1)]_screenVars

\* What the clipping does keep, wherever the window lies and whoever draws in
\* between: a process never draws left of its window or above it, and past its right
\* and its lower edge no further than the window is from the corner.
NearWindow ==
    [][\A p \in Pixel : picture'[p] # picture[p] /\ mine.clip # Pixel =>
         LET w == window[current] IN
         p \in Rect(w.x, w.y, w.width + w.x + 1, w.height + w.y + 1)]_screenVars
=============================================================================
